---- MODULE Spec2Model ----
(***************************************************************************)
(* Scheduling and barrier insertion of loopy (src/loopy/schedule.py):      *)
(* the backtracking search generate_loop_schedules_internal as a machine   *)
(* of generator frames, the entry points generate_loop_schedules and       *)
(* get_one_scheduled_kernel with the schedule cache, and insert_barriers   *)
(* as a recursive operator.                                                *)
(***************************************************************************)
EXTENDS Integers, Sequences, FiniteSets, TLC

\* ------------------------------------------------------------------------
\* Bounds and universes of the kernels that are scheduled
\* ------------------------------------------------------------------------

\* instruction priorities range over 0..MaxPriority
MaxPriority == 1

\* number of get_one_scheduled_kernel calls made on the kernel
MaxCalls == 2

InsnIds == {"a", "b", "c", "d"}

Inames == {"i", "j"}

\* t, u: local temporaries; g: a global array argument
Vars == {"t", "u", "g"}

\* iname tags as the scheduler tells them apart: no tag / sequential,
\* hardware-parallel (group or local axis), ILP, vectorize
Tags == {"seq", "par", "ilp", "vec"}

\* the order in which instructions are numbered in a kernel
Rank(x) == CASE x = "a" -> 1 [] x = "b" -> 2 [] x = "c" -> 3 [] x = "d" -> 4

\* ------------------------------------------------------------------------
\* Sequence helpers
\* ------------------------------------------------------------------------

Range(s) == {s[n] : n \in DOMAIN s}

Max(S) == CHOOSE m \in S : \A n \in S : n <= m

\* all orderings of a finite set, as sequences
RECURSIVE Perms(_)
Perms(S) ==
    IF S = {} THEN {<<>>}
    ELSE UNION {{<<x>> \o p : p \in Perms(S \ {x})} : x \in S}

\* ------------------------------------------------------------------------
\* Schedule items
\* ------------------------------------------------------------------------

EnterLoop(iname) == [type |-> "EnterLoop", iname |-> iname]

LeaveLoop(iname) == [type |-> "LeaveLoop", iname |-> iname]

RunInstruction(insn_id) == [type |-> "RunInstruction", insn_id |-> insn_id]

Barrier(kind) == [type |-> "Barrier", kind |-> kind]

\* ------------------------------------------------------------------------
\* Kernel queries.  A kernel k is a record
\*   insns          the instruction ids
\*   insn_inames    id -> inames the instruction runs under
\*   insn_deps      id -> ids it depends on
\*   priority       id -> number
\*   boostable      id -> BOOLEAN
\*   writes, reads  id -> variable names
\*   iname_to_tag   iname -> tag
\*   loop_priority  sequence of inames
\*   domains        sequence of [set: inames, param: names]
\*   local_vars     names of the local temporaries
\*   temps          names of all temporaries
\* ------------------------------------------------------------------------

all_inames(k) == UNION {k.domains[n].set : n \in DOMAIN k.domains}

iname_to_insns(k) ==
    [iname \in all_inames(k) |-> {x \in k.insns : iname \in k.insn_inames[x]}]

get_home_domain_index(k, iname) ==
    CHOOSE n \in DOMAIN k.domains : iname \in k.domains[n].set

writer_map(k) == [v \in Vars |-> {x \in k.insns : v \in k.writes[x]}]

local_var_names(k) == k.local_vars

global_var_names(k) == Vars \ k.temps

RECURSIVE compute_deps(_, _)
compute_deps(k, insn_id) ==
    k.insn_deps[insn_id]
        \cup UNION {compute_deps(k, dep) : dep \in k.insn_deps[insn_id]}

recursive_insn_dep_map(k) == [x \in k.insns |-> compute_deps(k, x)]

\* preprocess.limit_boostability: an instruction is boostable into the inames
\* that occur together with its own inames, minus its own and the single-use
\* ones
boostable_into(k, x) ==
    LET iname_occurs_with(iname) ==
            UNION {k.insn_inames[y] : y \in {z \in k.insns : iname \in k.insn_inames[z]}}
        single_use_inames ==
            {iname \in Inames :
                Cardinality({y \in k.insns : iname \in k.insn_inames[y]}) = 1}
    IN  IF k.boostable[x]
        THEN UNION {iname_occurs_with(iname) : iname \in k.insn_inames[x]}
                 \ (k.insn_inames[x] \cup single_use_inames)
        ELSE {}

ilp_inames(k) == {iname \in all_inames(k) : k.iname_to_tag[iname] = "ilp"}

vec_inames(k) == {iname \in all_inames(k) : k.iname_to_tag[iname] = "vec"}

\* ilp and vec are not parallel for the purposes of the scheduler
parallel_inames(k) == {iname \in all_inames(k) : k.iname_to_tag[iname] = "par"}

breakable_inames(k) == ilp_inames(k)

\* a slip: no slack for the ILP inames
loop_nest_map_no_slack(k) ==
    [inner_iname \in all_inames(k) |->
        {outer_iname \in all_inames(k) :
            /\ inner_iname # outer_iname
            /\ iname_to_insns(k)[inner_iname] \subseteq iname_to_insns(k)[outer_iname]
            /\ iname_to_insns(k)[inner_iname] # iname_to_insns(k)[outer_iname]}
        \cup
        UNION {k.domains[n].param \cap all_inames(k) :
                  n \in {m \in DOMAIN k.domains : inner_iname \in k.domains[m].set}}]

loop_nest_map(k) ==
    [inner_iname \in all_inames(k) |->
        {outer_iname \in all_inames(k) :
            /\ inner_iname # outer_iname
            /\ k.iname_to_tag[outer_iname] # "ilp"
            /\ iname_to_insns(k)[inner_iname] \subseteq iname_to_insns(k)[outer_iname]
            /\ iname_to_insns(k)[inner_iname] # iname_to_insns(k)[outer_iname]}
        \cup
        UNION {k.domains[n].param \cap all_inames(k) :
                  n \in {m \in DOMAIN k.domains : inner_iname \in k.domains[m].set}}]

\* ------------------------------------------------------------------------
\* generate_loop_schedules_internal: what one call computes from its
\* arguments (schedule, allow_boost in {"None", "False", "True"}, allow_insn)
\* ------------------------------------------------------------------------

scheduled_insn_ids(schedule) ==
    {schedule[n].insn_id :
        n \in {m \in DOMAIN schedule : schedule[m].type = "RunInstruction"}}

unscheduled_insn_ids(k, schedule) == k.insns \ scheduled_insn_ids(schedule)

\* the stack of entered and not yet left loops, innermost last; a LeaveLoop
\* pops whatever is on top
RECURSIVE active_inames(_)
active_inames(schedule) ==
    IF schedule = <<>> THEN <<>>
    ELSE LET rest == active_inames(SubSeq(schedule, 1, Len(schedule) - 1))
             sched_item == schedule[Len(schedule)]
         IN  CASE sched_item.type = "EnterLoop" -> Append(rest, sched_item.iname)
               [] sched_item.type = "LeaveLoop" -> SubSeq(rest, 1, Len(rest) - 1)
               [] OTHER -> rest

active_inames_set(schedule) == Range(active_inames(schedule))

rec_allow_boost(allow_boost) == IF allow_boost = "None" THEN "None" ELSE "False"

\* a slip: the dependencies are not looked at
deps_ignored(k, schedule, insn_id) == TRUE

\* set(insn.insn_deps) <= scheduled_insn_ids
deps_scheduled(k, schedule, insn_id) ==
    k.insn_deps[insn_id] \subseteq scheduled_insn_ids(schedule)

insn_want(k, insn_id) == k.insn_inames[insn_id] \ parallel_inames(k)

\* a slip: under boosting every active iname is taken off, boostable or not
insn_have_boost_any(k, schedule, allow_boost, insn_id) ==
    IF allow_boost = "True"
    THEN insn_want(k, insn_id)
    ELSE active_inames_set(schedule) \ parallel_inames(k)

\* have = active_inames_set - parallel_inames, and under boosting
\* have - insn.boostable_into
insn_have(k, schedule, allow_boost, insn_id) ==
    IF allow_boost = "True"
    THEN (active_inames_set(schedule) \ parallel_inames(k)) \ boostable_into(k, insn_id)
    ELSE active_inames_set(schedule) \ parallel_inames(k)

is_ready(k, schedule, allow_boost, insn_id) ==
    /\ insn_id \in unscheduled_insn_ids(k, schedule)
    /\ deps_scheduled(k, schedule, insn_id)
    /\ insn_want(k, insn_id) = insn_have(k, schedule, allow_boost, insn_id)

ready_insn_ids(k, schedule, allow_boost) ==
    {x \in k.insns : is_ready(k, schedule, allow_boost, x)}

\* a slip: the scan does not go by priority
any_ready_insn_ids(k, schedule, allow_boost) ==
    {x \in k.insns : is_ready(k, schedule, allow_boost, x)}

\* the instructions the scan in descending priority order can meet first
\* among the ready ones: sorted() keeps the iteration order of the id set
\* among equal priorities, and that order is not fixed by the program
first_ready_insn_ids(k, schedule, allow_boost) ==
    {x \in ready_insn_ids(k, schedule, allow_boost) :
        \A y \in ready_insn_ids(k, schedule, allow_boost) :
            k.priority[y] <= k.priority[x]}

reachable_insn_ids(k, schedule, allow_boost) ==
    {x \in unscheduled_insn_ids(k, schedule) :
        /\ deps_scheduled(k, schedule, x)
        /\ ~is_ready(k, schedule, allow_boost, x)
        /\ insn_have(k, schedule, allow_boost, x) \subseteq insn_want(k, x)}

\* scanning the schedule backwards: has an instruction been run since the
\* EnterLoop of the innermost active loop
RECURSIVE seen_an_insn_scan(_, _, _, _)
seen_an_insn_scan(schedule, n, seen_an_insn, ignore_count) ==
    IF n = 0 THEN FALSE
    ELSE CASE schedule[n].type = "RunInstruction" ->
                seen_an_insn_scan(schedule, n - 1, TRUE, ignore_count)
           [] schedule[n].type = "LeaveLoop" ->
                seen_an_insn_scan(schedule, n - 1, seen_an_insn, ignore_count + 1)
           [] schedule[n].type = "EnterLoop" ->
                IF ignore_count > 0
                THEN seen_an_insn_scan(schedule, n - 1, seen_an_insn, ignore_count - 1)
                ELSE seen_an_insn
           [] OTHER -> seen_an_insn_scan(schedule, n - 1, seen_an_insn, ignore_count)

\* a slip in the index: the outermost active loop
outermost_entered_loop(schedule) == active_inames(schedule)[1]

\* active_inames[-1], asked for when some loop is active
last_entered_loop(schedule) ==
    active_inames(schedule)[Len(active_inames(schedule))]

\* a slip: every loop is left like a breakable one
can_leave_any(k, schedule) ==
    /\ active_inames(schedule) # <<>>
    /\ seen_an_insn_scan(schedule, Len(schedule), FALSE, 0)

\* a slip: a loop is left whether an instruction was run in it or not
can_leave_empty(k, schedule) ==
    /\ active_inames(schedule) # <<>>
    /\ \/ last_entered_loop(schedule) \in breakable_inames(k)
       \/ \A x \in unscheduled_insn_ids(k, schedule) :
              last_entered_loop(schedule) \notin k.insn_inames[x]

can_leave(k, schedule) ==
    /\ active_inames(schedule) # <<>>
    /\ \/ last_entered_loop(schedule) \in breakable_inames(k)
       \/ \A x \in unscheduled_insn_ids(k, schedule) :
              last_entered_loop(schedule) \notin k.insn_inames[x]
    /\ seen_an_insn_scan(schedule, Len(schedule), FALSE, 0)

\* a slip: the parallel inames are not taken off
needed_inames_with_parallel(k, schedule) ==
    UNION {k.insn_inames[x] : x \in unscheduled_insn_ids(k, schedule)}
        \ active_inames_set(schedule)

\* the inames of the unscheduled instructions, without the parallel and the
\* active ones
needed_inames(k, schedule) ==
    (UNION {k.insn_inames[x] : x \in unscheduled_insn_ids(k, schedule)}
        \ parallel_inames(k)) \ active_inames_set(schedule)

\* a slip: the nest check is left out
may_enter_unnested(k, schedule, iname) ==
    \A domain_par \in
            k.domains[get_home_domain_index(k, iname)].param \cap k.temps :
        writer_map(k)[domain_par] \subseteq scheduled_insn_ids(schedule)

\* a slip: the writes of the domain parameters are not waited for
may_enter_unwritten(k, schedule, iname) ==
    loop_nest_map(k)[iname]
        \subseteq (active_inames_set(schedule) \cup parallel_inames(k))

\* the nest check and the data-dependent bound check of a loop entry
may_enter(k, schedule, iname) ==
    /\ loop_nest_map(k)[iname]
           \subseteq (active_inames_set(schedule) \cup parallel_inames(k))
    /\ \A domain_par \in
              k.domains[get_home_domain_index(k, iname)].param \cap k.temps :
          writer_map(k)[domain_par] \subseteq scheduled_insn_ids(schedule)

\* instructions that entering iname brings closer
enabled_by(k, schedule, allow_boost, iname) ==
    {x \in reachable_insn_ids(k, schedule, allow_boost) :
        (active_inames_set(schedule) \cup {iname})
            \subseteq (k.insn_inames[x] \cup boostable_into(k, x))}

\* iname_to_usefulness, as a function on the useful inames
iname_to_usefulness(k, schedule, allow_boost) ==
    [iname \in {n \in needed_inames(k, schedule) :
                    /\ may_enter(k, schedule, n)
                    /\ enabled_by(k, schedule, allow_boost, n) # {}}
        |-> Max({k.priority[x] : x \in enabled_by(k, schedule, allow_boost, iname)})]

useful_loops_set(k, schedule, allow_boost) ==
    DOMAIN iname_to_usefulness(k, schedule, allow_boost)

\* a slip: the caller's loop_priority is not looked at
leading_tiers_unordered(k, schedule, allow_boost) ==
    <<(useful_loops_set(k, schedule, allow_boost) \ ilp_inames(k)) \ vec_inames(k)>>

\* the tiers before the ILP and vectorize ones
leading_tiers(k, schedule, allow_boost) ==
    LET useful == useful_loops_set(k, schedule, allow_boost)
        loop_priority_set == Range(k.loop_priority)
        desired == SelectSeq(k.loop_priority,
                       LAMBDA iname : /\ iname \in useful
                                      /\ iname \notin ilp_inames(k)
                                      /\ iname \notin vec_inames(k))
    IN  IF useful \cap loop_priority_set # {}
        THEN [n \in 1..Len(desired) |-> {desired[n]}]
                 \o <<((useful \ loop_priority_set) \ ilp_inames(k)) \ vec_inames(k)>>
        ELSE <<(useful \ ilp_inames(k)) \ vec_inames(k)>>

\* the lists of tiers the call can build: the singleton ILP tiers, and then
\* the vectorize ones, come in the iteration order of a set
priority_tiers(k, schedule, allow_boost) ==
    LET useful == useful_loops_set(k, schedule, allow_boost)
        singletons(p) == [n \in 1..Len(p) |-> {p[n]}]
    IN  {leading_tiers(k, schedule, allow_boost) \o singletons(p) \o singletons(q) :
            p \in Perms(ilp_inames(k) \cap useful),
            q \in Perms(vec_inames(k) \cap useful)}

\* the inames sorted(tier, key=usefulness, reverse=True) can put first
first_of_tier(k, schedule, allow_boost, tier) ==
    LET usefulness == iname_to_usefulness(k, schedule, allow_boost)
    IN  {iname \in tier : \A other \in tier : usefulness[other] <= usefulness[iname]}

\* a slip in the test: done as soon as no loop is active
no_loop_active(k, schedule) == active_inames(schedule) = <<>>

\* not active_inames and not unscheduled_insn_ids
is_complete(k, schedule) ==
    /\ active_inames(schedule) = <<>>
    /\ unscheduled_insn_ids(k, schedule) = {}

\* ------------------------------------------------------------------------
\* Barrier insertion
\* ------------------------------------------------------------------------

\* index of the LeaveLoop that closes the EnterLoop at start_idx
RECURSIVE gather_end(_, _, _)
gather_end(schedule, n, level) ==
    LET new_level == CASE schedule[n].type = "EnterLoop" -> level + 1
                       [] schedule[n].type = "LeaveLoop" -> level - 1
                       [] OTHER -> level
    IN  IF schedule[n].type = "LeaveLoop" /\ new_level = 0
        THEN n
        ELSE gather_end(schedule, n + 1, new_level)

\* gather_schedule_subloop returns (schedule[start_idx:i+1], i+1)
gather_schedule_subloop(schedule, start_idx) ==
    LET last == gather_end(schedule, start_idx, 0)
    IN  [subloop |-> SubSeq(schedule, start_idx, last), new_i |-> last + 1]

\* a slip: the dependency between the two instructions is not looked at
get_barrier_needing_dependency_any(k, target, source, reverse, var_kind) ==
    LET src == IF reverse THEN target ELSE source
        tgt == IF reverse THEN source ELSE target
        relevant_vars == IF var_kind = "local" THEN local_var_names(k)
                         ELSE global_var_names(k)
        tgt_write == k.writes[tgt] \cap relevant_vars
        tgt_read == k.reads[tgt] \cap relevant_vars
        src_write == k.writes[src] \cap relevant_vars
        src_read == k.reads[src] \cap relevant_vars
        waw == tgt_write \cap src_write
        raw == tgt_read \cap src_write
        war == tgt_write \cap src_read
        record(var_name) == [source |-> src, target |-> tgt, variable |-> var_name,
                             var_kind |-> var_kind, is_forward |-> ~reverse]
    IN  IF raw \cup war # {} THEN {record(v) : v \in raw \cup war}
        ELSE IF src = tgt THEN {}
        ELSE {record(v) : v \in waw}

\* the DependencyRecords the function can return; the empty set stands for
\* None.  Which of several hazardous variables is named is left open by the
\* iteration over a set.
get_barrier_needing_dependency(k, target, source, reverse, var_kind) ==
    LET src == IF reverse THEN target ELSE source
        tgt == IF reverse THEN source ELSE target
        relevant_vars == IF var_kind = "local" THEN local_var_names(k)
                         ELSE global_var_names(k)
        tgt_write == k.writes[tgt] \cap relevant_vars
        tgt_read == k.reads[tgt] \cap relevant_vars
        src_write == k.writes[src] \cap relevant_vars
        src_read == k.reads[src] \cap relevant_vars
        waw == tgt_write \cap src_write
        raw == tgt_read \cap src_write
        war == tgt_write \cap src_read
        record(var_name) == [source |-> src, target |-> tgt, variable |-> var_name,
                             var_kind |-> var_kind, is_forward |-> ~reverse]
    IN  IF src \notin recursive_insn_dep_map(k)[tgt] THEN {}
        ELSE IF raw \cup war # {} THEN {record(v) : v \in raw \cup war}
        ELSE IF src = tgt THEN {}
        ELSE {record(v) : v \in waw}

\* a slip: the equal kind is left out
barrier_kind_more_global(kind1, kind2) == kind1 = "global" /\ kind2 = "local"

barrier_kind_more_or_equally_global(kind1, kind2) ==
    (kind1 = kind2) \/ (kind1 = "global" /\ kind2 = "local")

is_clearing_barrier(sched_item, kind) ==
    /\ sched_item.type = "Barrier"
    /\ barrier_kind_more_or_equally_global(sched_item.kind, kind)

\* ids of the instructions after the last barrier of the kind (or a more
\* global one)
RECURSIVE get_tail_starting_at_last_barrier(_, _)
get_tail_starting_at_last_barrier(schedule, kind) ==
    IF schedule = <<>> THEN {}
    ELSE LET sched_item == schedule[Len(schedule)]
             front == SubSeq(schedule, 1, Len(schedule) - 1)
         IN  IF is_clearing_barrier(sched_item, kind) THEN {}
             ELSE IF sched_item.type = "RunInstruction"
             THEN {sched_item.insn_id} \cup get_tail_starting_at_last_barrier(front, kind)
             ELSE get_tail_starting_at_last_barrier(front, kind)

insn_ids_from_schedule(schedule) == scheduled_insn_ids(schedule)

\* a slip: the reverse pass restricts the search like the forward pass
needs_barrier_among_deps(k, candidates, insn_id, reverse, kind) ==
    \E dep_src_insn_id \in candidates \cap recursive_insn_dep_map(k)[insn_id] :
        get_barrier_needing_dependency(k, insn_id, dep_src_insn_id, reverse, kind) # {}

\* the search over the candidates that may need a barrier before insn_id
needs_barrier(k, candidates, insn_id, reverse, kind) ==
    LET search_set == IF reverse THEN candidates
                      ELSE candidates \cap recursive_insn_dep_map(k)[insn_id]
    IN  \E dep_src_insn_id \in search_set :
            get_barrier_needing_dependency(k, insn_id, dep_src_insn_id, reverse, kind) # {}

\* a slip: the reverse pass runs at the outermost level as well
skips_reverse_pass_never(level, reverse) == FALSE

\* the schedule at level 0 is in no loop and not repeated
skips_reverse_pass(level, reverse) == level = 0 /\ reverse

\* a slip: candidates is set to the trailing end of the loop body
candidates_set_to_trailing(candidates, issue, trailing) == trailing

\* candidates after a loop: issue_barrier() has cleared them if it ran, and
\* candidates.update() adds the trailing end of the loop body
candidates_after_loop(candidates, issue, trailing) ==
    (IF issue THEN {} ELSE candidates) \cup trailing

rest_of_schedule_dropped(schedule, i) == <<>>

\* schedule[i:], what the reverse pass copies when it quits
rest_of_schedule(schedule, i) == SubSeq(schedule, i, Len(schedule))

RECURSIVE insert_barriers(_, _, _, _, _)
RECURSIVE insert_barriers_loop(_, _, _, _, _, _)
RECURSIVE insert_barriers_step(_, _, _, _, _, _)

\* one turn of the while loop of insert_barriers; st holds i, result,
\* candidates and past_first_barrier
insert_barriers_step(k, schedule, reverse, kind, level, st) ==
    LET sched_item == schedule[st.i]
    IN    CASE sched_item.type = "EnterLoop" ->
                LET sub == gather_schedule_subloop(schedule, st.i)
                    subloop == sub.subloop
                    body == SubSeq(subloop, 2, Len(subloop) - 1)
                    subresult ==
                        insert_barriers(k,
                            insert_barriers(k, body, FALSE, kind, level + 1),
                            TRUE, kind, level + 1)
                    barrier_indices ==
                        {n \in DOMAIN subresult : is_clearing_barrier(subresult[n], kind)}
                    has_barrier == barrier_indices # {}
                    first_barrier_index ==
                        CHOOSE n \in barrier_indices : \A m \in barrier_indices : n <= m
                    last_barrier_index ==
                        CHOOSE n \in barrier_indices : \A m \in barrier_indices : m <= n
                    \* seen_barrier() has run for every barrier of the body
                    cand1 == IF has_barrier THEN {} ELSE st.candidates
                    leading ==
                        IF has_barrier
                        THEN insn_ids_from_schedule(
                                 SubSeq(subresult, 1, first_barrier_index - 1))
                        ELSE insn_ids_from_schedule(subresult)
                    issue == \E insn_id \in leading :
                                 needs_barrier(k, cand1, insn_id, reverse, kind)
                    trailing ==
                        IF has_barrier
                        THEN insn_ids_from_schedule(
                                 SubSeq(subresult, last_barrier_index + 1, Len(subresult)))
                        ELSE insn_ids_from_schedule(subresult)
                IN  [i |-> sub.new_i,
                     result |-> st.result
                                  \o (IF issue THEN <<Barrier(kind)>> ELSE <<>>)
                                  \o <<subloop[1]>> \o subresult
                                  \o <<subloop[Len(subloop)]>>,
                     candidates |-> candidates_after_loop(cand1, issue, trailing),
                     past_first_barrier |-> st.past_first_barrier \/ has_barrier \/ issue]
            [] sched_item.type = "Barrier" ->
                LET clears == barrier_kind_more_or_equally_global(sched_item.kind, kind)
                IN  [i |-> st.i + 1,
                     result |-> Append(st.result, sched_item),
                     candidates |-> IF clears THEN {} ELSE st.candidates,
                     past_first_barrier |-> st.past_first_barrier \/ clears]
            [] sched_item.type = "RunInstruction" ->
                LET issue == needs_barrier(k, st.candidates, sched_item.insn_id,
                                           reverse, kind)
                IN  [i |-> st.i + 1,
                     result |-> st.result
                                  \o (IF issue THEN <<Barrier(kind)>> ELSE <<>>)
                                  \o <<sched_item>>,
                     candidates |-> (IF issue THEN {} ELSE st.candidates)
                                        \cup {sched_item.insn_id},
                     past_first_barrier |-> st.past_first_barrier \/ issue]

\* the while loop of insert_barriers
insert_barriers_loop(k, schedule, reverse, kind, level, st) ==
    IF st.i > Len(schedule) THEN st.result
    ELSE
    LET step == insert_barriers_step(k, schedule, reverse, kind, level, st)
    IN  IF step.past_first_barrier /\ reverse
        THEN step.result \o rest_of_schedule(schedule, step.i)
        ELSE insert_barriers_loop(k, schedule, reverse, kind, level, step)

insert_barriers(k, schedule, reverse, kind, level) ==
    IF skips_reverse_pass(level, reverse) THEN schedule
    ELSE insert_barriers_loop(k, schedule, reverse, kind, level,
             [i |-> 1,
              result |-> <<>>,
              candidates |-> IF reverse
                             THEN get_tail_starting_at_last_barrier(schedule, kind)
                             ELSE {},
              past_first_barrier |-> FALSE])

\* ------------------------------------------------------------------------
\* State
\* ------------------------------------------------------------------------

VARIABLES
    kernel,            \* the preprocessed kernel handed to the scheduler
    CACHING_ENABLED,   \* loopy.CACHING_ENABLED
    caller,            \* "get_one": get_one_scheduled_kernel; "direct": a loop
                       \* over generate_loop_schedules(kernel)
    schedule_cache,    \* kernel -> [result, ambiguous]
    calls,             \* calls of the entry point made so far
    gosk_pc,           \* position of the caller
    from_cache, kernel_count, result, ambiguous,
                       \* locals of get_one_scheduled_kernel
    returned,          \* the results returned by get_one_scheduled_kernel
    gls_pc,            \* position of generate_loop_schedules
    gen,               \* the generator being iterated: 1 never boosts,
                       \* 2 escalates to boosting, 3 is the interactive replay
    schedule_count,    \* local of generate_loop_schedules
    gls_out,           \* the schedule of the kernel it yielded last
    gls_calls,         \* how often generate_loop_schedules was started
    cache_writes,      \* how often schedule_cache was assigned
    stack,             \* frames of generate_loop_schedules_internal, the
                       \* running one last
    debug,             \* the ScheduleDebugger
    yielded,           \* what the search generators yielded so far: the
                       \* generator, its schedule, and the schedule of the
                       \* kernel generate_loop_schedules made of it
    peer               \* the locals of a second thread that calls
                       \* get_one_scheduled_kernel on the same kernel, while
                       \* it does not run

vars == <<kernel, CACHING_ENABLED, caller, schedule_cache, calls, gosk_pc,
          from_cache, kernel_count, result, ambiguous, returned, gls_pc, gen,
          schedule_count, gls_out, gls_calls, cache_writes, stack, debug,
          yielded, peer>>

kernel_vars == <<kernel, CACHING_ENABLED, caller, peer>>

gosk_vars == <<schedule_cache, calls, gosk_pc, from_cache, kernel_count, result,
               ambiguous, returned, gls_calls, cache_writes>>

NoResult == <<"unbound">>

\* a call generate_loop_schedules_internal(sched_state, loop_priority,
\* schedule, allow_boost, allow_insn) that has not run yet
Frame(schedule, allow_boost, allow_insn) ==
    [schedule |-> schedule, allow_boost |-> allow_boost, allow_insn |-> allow_insn,
     pc |-> "begin", tiers |-> <<>>, tier |-> {}, found_viable_schedule |-> FALSE]

\* ScheduleDebugger(**debug_args); debug_length -1 stands for None
ScheduleDebugger(interactive) ==
    [longest_rejected_schedule |-> <<>>, success_counter |-> 0,
     dead_end_counter |-> 0, debug_length |-> -1, interactive |-> interactive]

\* the locals of a thread at get_one_scheduled_kernel and below it
Context(pc, cached, count, res, amb, g_pc, g, s_count, out, frames, dbg) ==
    [gosk_pc |-> pc, from_cache |-> cached, kernel_count |-> count, result |-> res,
     ambiguous |-> amb, gls_pc |-> g_pc, gen |-> g, schedule_count |-> s_count,
     gls_out |-> out, stack |-> frames, debug |-> dbg]

\* a thread that has not called yet
Idle == Context("idle", FALSE, 0, NoResult, FALSE, "idle", 0, 0, NoResult, <<>>,
                ScheduleDebugger(TRUE))

Top == stack[Len(stack)]

Running == gls_pc = "running" /\ stack # <<>>

\* a frame that only forwards what its callee yields returns as soon as the
\* callee is exhausted
RECURSIVE Unwind(_)
Unwind(frames) ==
    IF frames # <<>> /\ frames[Len(frames)].pc = "fwd"
    THEN Unwind(SubSeq(frames, 1, Len(frames) - 1))
    ELSE frames

\* a slip: the caller that forwards the schedules of its callee is not
\* resumed when the callee is exhausted
Return_to_forwarder(frames) == SubSeq(frames, 1, Len(frames) - 1)

\* the running frame returns
Return(frames) == Unwind(SubSeq(frames, 1, Len(frames) - 1))

\* the running frame moves to pc and calls callee
Call(frames, pc, callee) ==
    Append([frames EXCEPT ![Len(frames)].pc = pc], callee)

\* allow_insn holds and some instruction is ready
runs_insn(f) ==
    f.allow_insn /\ ready_insn_ids(kernel, f.schedule, f.allow_boost) # {}

\* the call has reached the end of the loop-entry section
at_final(f) ==
    \/ f.pc = "final"
    \/ /\ f.pc = "begin"
       /\ ~runs_insn(f)
       /\ ~can_leave(kernel, f.schedule)
       /\ needed_inames(kernel, f.schedule) = {}

\* a slip: once the observer has counted a dead end, the allow_insn retry
\* is taken for done
past_insn_retry_after_dead_end(f) ==
    \/ f.pc = "retry_insn"
    \/ at_final(f) /\ (f.allow_insn \/ debug.dead_end_counter > 0)

\* the allow_insn retry of the dead-end section is over or not due
past_insn_retry(f) ==
    \/ f.pc = "retry_insn"
    \/ at_final(f) /\ f.allow_insn

\* ------------------------------------------------------------------------
\* generate_loop_schedules_internal: the steps of the running call
\* ------------------------------------------------------------------------

search_frame == <<kernel_vars, gosk_vars, gls_pc, gen, schedule_count, gls_out>>

\* a ready instruction is found and allow_insn holds: run it and forward
\* what the search yields from there
ScheduleInsn ==
    /\ Running
    /\ Top.pc = "begin"
    /\ Top.allow_insn
    /\ \E insn_id \in first_ready_insn_ids(kernel, Top.schedule, Top.allow_boost) :
          stack' = Call(stack, "fwd",
                        Frame(Append(Top.schedule, RunInstruction(insn_id)),
                              rec_allow_boost(Top.allow_boost), TRUE))
    /\ UNCHANGED <<search_frame, debug, yielded>>

\* a slip: no return after the schedules of the shorter loop nest
LeaveAndGoOn ==
    /\ Running
    /\ Top.pc = "begin"
    /\ ~runs_insn(Top)
    /\ can_leave(kernel, Top.schedule)
    /\ stack' = Call(stack, "final",
                     Frame(Append(Top.schedule,
                                  LeaveLoop(last_entered_loop(Top.schedule))),
                           rec_allow_boost(Top.allow_boost), Top.allow_insn))
    /\ UNCHANGED <<search_frame, debug, yielded>>

\* the innermost loop can be left: leave it and forward
LeaveInnermost ==
    /\ Running
    /\ Top.pc = "begin"
    /\ ~runs_insn(Top)
    /\ can_leave(kernel, Top.schedule)
    /\ stack' = Call(stack, "fwd",
                     Frame(Append(Top.schedule,
                                  LeaveLoop(last_entered_loop(Top.schedule))),
                           rec_allow_boost(Top.allow_boost), Top.allow_insn))
    /\ UNCHANGED <<search_frame, debug, yielded>>

\* some iname is still needed: build the priority tiers
BuildTiers ==
    /\ Running
    /\ Top.pc = "begin"
    /\ ~runs_insn(Top)
    /\ ~can_leave(kernel, Top.schedule)
    /\ needed_inames(kernel, Top.schedule) # {}
    /\ \E tiers \in priority_tiers(kernel, Top.schedule, Top.allow_boost) :
          stack' = [stack EXCEPT ![Len(stack)].pc = "tiers",
                                 ![Len(stack)].tier = Head(tiers),
                                 ![Len(stack)].tiers = Tail(tiers)]
    /\ UNCHANGED <<search_frame, debug, yielded>>

\* enter the next iname of the current tier
EnterTierLoop ==
    /\ Running
    /\ Top.pc = "tiers"
    /\ \E iname \in first_of_tier(kernel, Top.schedule, Top.allow_boost, Top.tier) :
          stack' = Append([stack EXCEPT ![Len(stack)].tier = @ \ {iname}],
                          Frame(Append(Top.schedule, EnterLoop(iname)),
                                rec_allow_boost(Top.allow_boost), FALSE))
    /\ UNCHANGED <<search_frame, debug, yielded>>

\* the current tier is used up and found a schedule: return
TierFound ==
    /\ Running
    /\ Top.pc = "tiers"
    /\ Top.tier = {}
    /\ Top.found_viable_schedule
    /\ stack' = Return(stack)
    /\ UNCHANGED <<search_frame, debug, yielded>>

\* a slip: the next tier is tried whatever the tiers before it found
NextTier_always ==
    /\ Running
    /\ Top.pc = "tiers"
    /\ Top.tier = {}
    /\ Top.tiers # <<>>
    /\ stack' = [stack EXCEPT ![Len(stack)].tier = Head(Top.tiers),
                              ![Len(stack)].tiers = Tail(Top.tiers)]
    /\ UNCHANGED <<search_frame, debug, yielded>>

\* the current tier is used up and found nothing: go on with the next tier
NextTier ==
    /\ Running
    /\ Top.pc = "tiers"
    /\ Top.tier = {}
    /\ ~Top.found_viable_schedule
    /\ Top.tiers # <<>>
    /\ stack' = [stack EXCEPT ![Len(stack)].tier = Head(Top.tiers),
                              ![Len(stack)].tiers = Tail(Top.tiers)]
    /\ UNCHANGED <<search_frame, debug, yielded>>

\* no tier found a schedule
TiersExhausted ==
    /\ Running
    /\ Top.pc = "tiers"
    /\ Top.tier = {}
    /\ ~Top.found_viable_schedule
    /\ Top.tiers = <<>>
    /\ stack' = [stack EXCEPT ![Len(stack)].pc = "final"]
    /\ UNCHANGED <<search_frame, debug, yielded>>

\* every frame that iterates over a loop entry sees the schedule pass by
mark_found(frames) ==
    [n \in DOMAIN frames |->
        IF frames[n].pc = "tiers"
        THEN [frames[n] EXCEPT !.found_viable_schedule = TRUE]
        ELSE frames[n]]

\* the schedule of the running call is complete
CanYield ==
    /\ Running
    /\ at_final(Top)
    /\ is_complete(kernel, Top.schedule)

\* the generator yields: the frames wait at the yield until the consumer
\* resumes them; the replay drops the schedule and goes on
Yield ==
    /\ CanYield
    /\ stack' = IF gen = 3
                THEN Return(mark_found(stack))
                ELSE [mark_found(stack) EXCEPT ![Len(stack)].pc = "yielded"]

\* the schedule is complete: yield it.  generate_loop_schedules inserts the
\* local barriers and yields the scheduled kernel; the replay drops it.
YieldSchedule ==
    /\ Yield
    /\ debug' = [debug EXCEPT !.success_counter = @ + 1]
    /\ IF gen = 3
       THEN /\ yielded' = Append(yielded, [gen |-> gen, schedule |-> Top.schedule,
                                           scheduled |-> NoResult])
            /\ UNCHANGED <<gls_pc, gls_out>>
       ELSE /\ gls_out' = insert_barriers(kernel, Top.schedule, FALSE, "local", 0)
            /\ yielded' = Append(yielded, [gen |-> gen, schedule |-> Top.schedule,
                                           scheduled |-> gls_out'])
            /\ gls_pc' = "yielded"
    /\ UNCHANGED <<kernel_vars, gosk_vars, gen, schedule_count>>

\* dead end with allow_insn off: the same call again with allow_insn on
RetryAllowInsn ==
    /\ Running
    /\ at_final(Top)
    /\ ~is_complete(kernel, Top.schedule)
    /\ ~Top.allow_insn
    /\ stack' = Call(stack, "retry_insn", Frame(Top.schedule, Top.allow_boost, TRUE))
    /\ UNCHANGED <<search_frame, debug, yielded>>

\* allow_boost is False: the same call again with boosting allowed
RetryBoost ==
    /\ Running
    /\ past_insn_retry(Top)
    /\ ~is_complete(kernel, Top.schedule)
    /\ Top.allow_boost = "False"
    /\ stack' = Call(stack, "fwd", Frame(Top.schedule, "True", Top.allow_insn))
    /\ UNCHANGED <<search_frame, debug, yielded>>

\* allow_boost is None or True: log the dead end and return
DeadEnd ==
    /\ Running
    /\ past_insn_retry(Top)
    /\ ~is_complete(kernel, Top.schedule)
    /\ Top.allow_boost # "False"
    /\ debug' = [debug EXCEPT
           !.longest_rejected_schedule =
                IF Len(Top.schedule) > Len(@) THEN Top.schedule ELSE @,
           !.dead_end_counter = @ + 1]
    /\ stack' = Return(stack)
    /\ UNCHANGED <<search_frame, yielded>>

Search ==
    \/ ScheduleInsn
    \/ LeaveInnermost
    \/ BuildTiers
    \/ EnterTierLoop
    \/ TierFound
    \/ NextTier
    \/ TiersExhausted
    \/ YieldSchedule
    \/ RetryAllowInsn
    \/ RetryBoost
    \/ DeadEnd

\* ------------------------------------------------------------------------
\* generate_loop_schedules: the two generators, the replay and the error
\* ------------------------------------------------------------------------

gls_frame == <<kernel_vars, gosk_vars, gls_out, debug, yielded>>

GeneratorExhausted == gls_pc = "running" /\ stack = <<>>

\* a slip: the second generator is iterated whatever the first one yielded
NextGeneratorAlways ==
    /\ GeneratorExhausted
    /\ gen = 1
    /\ gen' = 2
    /\ stack' = <<Frame(<<>>, "False", FALSE)>>
    /\ UNCHANGED <<gls_frame, gls_pc, schedule_count>>

\* the never-boost search yielded nothing: iterate the second generator
NextGenerator ==
    /\ GeneratorExhausted
    /\ gen = 1
    /\ schedule_count = 0
    /\ gen' = 2
    /\ stack' = <<Frame(<<>>, "False", FALSE)>>
    /\ UNCHANGED <<gls_frame, gls_pc, schedule_count>>

\* a generator that yielded schedules is exhausted: scheduling is done
SchedulingDone ==
    /\ GeneratorExhausted
    /\ schedule_count > 0
    /\ gls_pc' = "done"
    /\ UNCHANGED <<gls_frame, gen, schedule_count, stack>>

\* no schedule at all: the interactive replay of the search, with
\* debug_length set to the longest dead end
StartReplay ==
    /\ GeneratorExhausted
    /\ gen = 2
    /\ schedule_count = 0
    /\ debug.interactive
    /\ gen' = 3
    /\ debug' = [debug EXCEPT !.debug_length = Len(debug.longest_rejected_schedule)]
    /\ stack' = <<Frame(<<>>, "False", FALSE)>>
    /\ UNCHANGED <<kernel_vars, gosk_vars, gls_out, yielded, gls_pc, schedule_count>>

\* a slip: the error is raised whatever schedule_count is
NoScheduleFoundAlways ==
    /\ GeneratorExhausted
    /\ \/ gen = 3
       \/ gen = 2 /\ ~debug.interactive
       \/ gen = 1 /\ schedule_count > 0
    /\ gls_pc' = "raised"
    /\ UNCHANGED <<gls_frame, gen, schedule_count, stack>>

\* raise RuntimeError("no valid schedules found")
NoScheduleFound ==
    /\ GeneratorExhausted
    /\ schedule_count = 0
    /\ \/ gen = 3
       \/ gen = 2 /\ ~debug.interactive
    /\ gls_pc' = "raised"
    /\ UNCHANGED <<gls_frame, gen, schedule_count, stack>>

\* what starting generate_loop_schedules sets up before its first yield
StartGenerators(debug_args) ==
    /\ gls_pc' = "running"
    /\ gen' = 1
    /\ schedule_count' = 0
    /\ debug' = ScheduleDebugger(debug_args.interactive)
    /\ stack' = <<Frame(<<>>, "None", FALSE)>>
    /\ gls_calls' = gls_calls + 1

\* the consumer asks for the next scheduled kernel: the generator goes on
\* behind its yield
ResumeGenerators ==
    /\ gls_pc' = "running"
    /\ schedule_count' = schedule_count + 1
    /\ stack' = Return(stack)
    /\ UNCHANGED <<gen, debug, gls_calls>>

\* ------------------------------------------------------------------------
\* get_one_scheduled_kernel
\* ------------------------------------------------------------------------

CanCall ==
    /\ gosk_pc \in {"idle", "returned", "raised"}
    /\ calls < MaxCalls

\* the kernel is in the cache: return the cached result
CacheHit ==
    /\ caller = "get_one"
    /\ CanCall
    /\ CACHING_ENABLED
    /\ kernel \in DOMAIN schedule_cache
    /\ calls' = calls + 1
    /\ from_cache' = TRUE
    /\ result' = schedule_cache[kernel].result
    /\ ambiguous' = schedule_cache[kernel].ambiguous
    /\ returned' = Append(returned, schedule_cache[kernel].result)
    /\ gosk_pc' = "returned"
    /\ UNCHANGED <<kernel_vars, schedule_cache, kernel_count, gls_pc, gen,
                   schedule_count, gls_out, gls_calls, cache_writes, stack, debug,
                   yielded>>

\* not from the cache: start pulling from generate_loop_schedules
StartScheduling ==
    /\ caller = "get_one"
    /\ CanCall
    /\ ~(CACHING_ENABLED /\ kernel \in DOMAIN schedule_cache)
    /\ calls' = calls + 1
    /\ from_cache' = FALSE
    /\ ambiguous' = FALSE
    /\ kernel_count' = 0
    /\ result' = NoResult
    /\ gosk_pc' = "pulling"
    /\ StartGenerators([interactive |-> TRUE])
    /\ UNCHANGED <<kernel_vars, schedule_cache, returned, gls_out, cache_writes,
                   yielded>>

\* the first scheduled kernel is the result; ask for another one
UseFirstKernel ==
    /\ caller = "get_one"
    /\ gosk_pc = "pulling"
    /\ gls_pc = "yielded"
    /\ kernel_count = 0
    /\ kernel_count' = 1
    /\ result' = gls_out
    /\ ResumeGenerators
    /\ UNCHANGED <<kernel_vars, schedule_cache, calls, gosk_pc, from_cache,
                   ambiguous, returned, gls_out, cache_writes, yielded>>

\* a slip: the result is not stored in the cache
finish_without_store(res, amb) ==
    /\ UNCHANGED <<schedule_cache, cache_writes>>
    /\ returned' = Append(returned, res)
    /\ gosk_pc' = "returned"

\* a slip: an entry of the cache is never replaced
finish_keeps_entry(res, amb) ==
    /\ IF CACHING_ENABLED /\ kernel \notin DOMAIN schedule_cache
       THEN /\ schedule_cache' = [key \in {kernel} |->
                                     [result |-> res, ambiguous |-> amb]]
            /\ cache_writes' = cache_writes + 1
       ELSE UNCHANGED <<schedule_cache, cache_writes>>
    /\ returned' = Append(returned, res)
    /\ gosk_pc' = "returned"

\* what follows the loop over the scheduled kernels
finish(res, amb) ==
    /\ IF CACHING_ENABLED
       THEN /\ schedule_cache' = [key \in DOMAIN schedule_cache \cup {kernel} |->
                                     IF key = kernel
                                     THEN [result |-> res, ambiguous |-> amb]
                                     ELSE schedule_cache[key]]
            /\ cache_writes' = cache_writes + 1
       ELSE UNCHANGED <<schedule_cache, cache_writes>>
    /\ returned' = Append(returned, res)
    /\ gosk_pc' = "returned"

\* a slip: the second scheduled kernel replaces the first
SecondKernelWins ==
    /\ caller = "get_one"
    /\ gosk_pc = "pulling"
    /\ gls_pc = "yielded"
    /\ kernel_count = 1
    /\ kernel_count' = 2
    /\ ambiguous' = TRUE
    /\ gls_pc' = "closed"
    /\ result' = gls_out
    /\ finish(gls_out, TRUE)
    /\ UNCHANGED <<kernel_vars, calls, from_cache, gen, schedule_count,
                   gls_out, gls_calls, stack, debug, yielded>>

\* a second scheduled kernel: flag the ambiguity and stop pulling
SecondKernel ==
    /\ caller = "get_one"
    /\ gosk_pc = "pulling"
    /\ gls_pc = "yielded"
    /\ kernel_count = 1
    /\ kernel_count' = 2
    /\ ambiguous' = TRUE
    /\ gls_pc' = "closed"
    /\ finish(result, TRUE)
    /\ UNCHANGED <<kernel_vars, calls, from_cache, result, gen, schedule_count,
                   gls_out, gls_calls, stack, debug, yielded>>

\* generate_loop_schedules is exhausted after one scheduled kernel
FinishScheduling ==
    /\ caller = "get_one"
    /\ gosk_pc = "pulling"
    /\ gls_pc = "done"
    /\ finish(result, ambiguous)
    /\ UNCHANGED <<kernel_vars, calls, from_cache, kernel_count, result, ambiguous,
                   gls_pc, gen, schedule_count, gls_out, gls_calls, stack, debug,
                   yielded>>

\* the error of generate_loop_schedules leaves get_one_scheduled_kernel
PropagateError ==
    /\ caller = "get_one"
    /\ gosk_pc = "pulling"
    /\ gls_pc = "raised"
    /\ gosk_pc' = "raised"
    /\ UNCHANGED <<kernel_vars, schedule_cache, calls, from_cache, kernel_count,
                   result, ambiguous, returned, gls_pc, gen, schedule_count, gls_out,
                   gls_calls, cache_writes, stack, debug, yielded>>

\* ------------------------------------------------------------------------
\* Two threads in get_one_scheduled_kernel.  The threads share schedule_cache
\* and nothing else: every other step of a call works on its own locals, its
\* own generators and its own ScheduleDebugger, so it is enough to switch
\* between the threads next to the reads and writes of the cache.
\* ------------------------------------------------------------------------

\* the running thread has read the cache and missed, and has not searched yet
JustMissed ==
    /\ gosk_pc = "pulling"
    /\ gls_pc = "running"
    /\ gen = 1
    /\ kernel_count = 0
    /\ stack = <<Frame(<<>>, "None", FALSE)>>

\* the running thread is before a read or behind a write of the cache
AtCacheAccess == JustMissed \/ gosk_pc \in {"idle", "returned", "raised"}

\* the other thread runs
SwitchThread ==
    /\ caller = "get_one"
    /\ AtCacheAccess
    /\ peer' = Context(gosk_pc, from_cache, kernel_count, result, ambiguous, gls_pc,
                       gen, schedule_count, gls_out, stack, debug)
    /\ gosk_pc' = peer.gosk_pc
    /\ from_cache' = peer.from_cache
    /\ kernel_count' = peer.kernel_count
    /\ result' = peer.result
    /\ ambiguous' = peer.ambiguous
    /\ gls_pc' = peer.gls_pc
    /\ gen' = peer.gen
    /\ schedule_count' = peer.schedule_count
    /\ gls_out' = peer.gls_out
    /\ stack' = peer.stack
    /\ debug' = peer.debug
    /\ UNCHANGED <<kernel, CACHING_ENABLED, caller, schedule_cache, calls, returned,
                   gls_calls, cache_writes, yielded>>

\* ------------------------------------------------------------------------
\* A caller that iterates over generate_loop_schedules(kernel,
\* debug_args=dict(interactive=False)) itself, once and up to the end
\* ------------------------------------------------------------------------

IterateSchedules ==
    /\ caller = "direct"
    /\ gosk_pc = "idle"
    /\ calls' = calls + 1
    /\ gosk_pc' = "pulling"
    /\ StartGenerators([interactive |-> FALSE])
    /\ UNCHANGED <<kernel_vars, schedule_cache, from_cache, kernel_count, result,
                   ambiguous, returned, gls_out, cache_writes, yielded>>

NextSchedule ==
    /\ caller = "direct"
    /\ gosk_pc = "pulling"
    /\ gls_pc = "yielded"
    /\ ResumeGenerators
    /\ UNCHANGED <<kernel_vars, schedule_cache, calls, gosk_pc, from_cache,
                   kernel_count, result, ambiguous, returned, gls_out, cache_writes,
                   yielded>>

IterationOver ==
    /\ caller = "direct"
    /\ gosk_pc = "pulling"
    /\ gls_pc \in {"done", "raised"}
    /\ gosk_pc' = IF gls_pc = "done" THEN "returned" ELSE "raised"
    /\ UNCHANGED <<kernel_vars, schedule_cache, calls, from_cache, kernel_count,
                   result, ambiguous, returned, gls_pc, gen, schedule_count, gls_out,
                   gls_calls, cache_writes, stack, debug, yielded>>

\* ------------------------------------------------------------------------
\* The kernels that are scheduled
\* ------------------------------------------------------------------------

\* dependency maps without cycles: up to the names of the instructions,
\* every one of them points from later to earlier instructions
AcyclicDeps(insns) ==
    {deps \in [insns -> SUBSET insns] :
        \A x \in insns : \A y \in deps[x] : Rank(y) < Rank(x)}

\* all inames in one domain without parameters
OneDomain == <<[set |-> Inames, param |-> {}]>>

Kernel(insns, insn_inames, insn_deps, priority, boostable, writes, reads, iname_to_tag, loop_priority, domains) ==
    [insns |-> insns, insn_inames |-> insn_inames, insn_deps |-> insn_deps,
     priority |-> priority, boostable |-> boostable, writes |-> writes,
     reads |-> reads, iname_to_tag |-> iname_to_tag,
     loop_priority |-> loop_priority, domains |-> domains,
     local_vars |-> {"t", "u"}, temps |-> {"t", "u"}]

NoVars(insns) == [x \in insns |-> {}]

AllSeq == [iname \in Inames |-> "seq"]

Flat(insns, n) == [x \in insns |-> n]

\* up to three instructions over the one iname i, under every tag of i
KernelsOneIname ==
    UNION {
        {Kernel(insns, insn_inames, insn_deps, Flat(insns, 0), Flat(insns, FALSE),
                NoVars(insns), NoVars(insns), [AllSeq EXCEPT !["i"] = tag],
                <<>>, OneDomain) :
            insn_inames \in [insns -> SUBSET {"i"}],
            insn_deps \in AcyclicDeps(insns),
            tag \in Tags} :
        insns \in {{"a"}, {"a", "b"}, {"a", "b", "c"}}}

\* two instructions over two inames, under all tags and loop priorities
KernelsTagged ==
    {Kernel({"a", "b"}, insn_inames, insn_deps, Flat({"a", "b"}, 0),
            Flat({"a", "b"}, FALSE), NoVars({"a", "b"}), NoVars({"a", "b"}),
            iname_to_tag, loop_priority, OneDomain) :
        insn_inames \in [{"a", "b"} -> SUBSET Inames],
        insn_deps \in AcyclicDeps({"a", "b"}),
        iname_to_tag \in [Inames -> Tags],
        loop_priority \in {<<>>, <<"j">>, <<"j", "i">>}}

\* two instructions over two sequential inames, with all priorities
KernelsPrioritized ==
    {Kernel({"a", "b"}, insn_inames, insn_deps, priority,
            Flat({"a", "b"}, FALSE), NoVars({"a", "b"}), NoVars({"a", "b"}),
            AllSeq, loop_priority, OneDomain) :
        insn_inames \in [{"a", "b"} -> SUBSET Inames],
        insn_deps \in AcyclicDeps({"a", "b"}),
        priority \in [{"a", "b"} -> 0..MaxPriority],
        loop_priority \in {<<>>, <<"j">>, <<"j", "i">>}}

\* three boostable instructions over two inames
KernelsBoostable ==
    {Kernel({"a", "b", "c"}, insn_inames, insn_deps, Flat({"a", "b", "c"}, 0),
            Flat({"a", "b", "c"}, TRUE), NoVars({"a", "b", "c"}),
            NoVars({"a", "b", "c"}), [AllSeq EXCEPT !["j"] = tag], <<>>, OneDomain) :
        insn_inames \in [{"a", "b", "c"} -> SUBSET Inames],
        insn_deps \in AcyclicDeps({"a", "b", "c"}),
        tag \in {"seq"}}

\* the domain of j has the iname i as a parameter
NestedDomains == <<[set |-> {"i"}, param |-> {}], [set |-> {"j"}, param |-> {"i"}]>>

\* two instructions over two inames with dependent domains, under all tags
KernelsDomains ==
    {Kernel({"a", "b"}, insn_inames, insn_deps, Flat({"a", "b"}, 0),
            Flat({"a", "b"}, FALSE), NoVars({"a", "b"}), NoVars({"a", "b"}),
            iname_to_tag, <<>>, NestedDomains) :
        insn_inames \in [{"a", "b"} -> SUBSET Inames],
        insn_deps \in AcyclicDeps({"a", "b"}),
        iname_to_tag \in [Inames -> Tags]}

SearchKernels == KernelsOneIname \cup KernelsTagged \cup KernelsPrioritized
                     \cup KernelsBoostable \cup KernelsDomains

\* every instruction depends on the one before it
ChainDeps(insns) ==
    [x \in insns |-> {y \in insns : Rank(y) = Rank(x) - 1}]

\* an instruction writes or reads at most one of the variables of vs
Accesses(insns, vs) ==
    {acc \in [insns -> [writes : SUBSET vs, reads : SUBSET vs]] :
        \A x \in insns : Cardinality(acc[x].writes) + Cardinality(acc[x].reads) <= 1}

\* the same over the local variables t and u, up to exchanging their names:
\* the first instruction that accesses a variable accesses t
LocalAccesses(insns) ==
    {acc \in Accesses(insns, {"t", "u"}) :
        \A x \in insns :
            "u" \in acc[x].writes \cup acc[x].reads
                => \E y \in insns : /\ Rank(y) < Rank(x)
                                    /\ "t" \in acc[y].writes \cup acc[y].reads}

\* loop nests a chain of instructions can run in without entering a loop twice
Unimodal(insns, insn_inames) ==
    \A x, y, z \in insns :
        Rank(x) < Rank(y) /\ Rank(y) < Rank(z)
            => ~(/\ insn_inames[y] # insn_inames[x]
                 /\ insn_inames[y] \subseteq insn_inames[x]
                 /\ insn_inames[y] # insn_inames[z]
                 /\ insn_inames[y] \subseteq insn_inames[z])

AccessingKernel(insns, insn_inames, insn_deps, acc) ==
    Kernel(insns, insn_inames, insn_deps, Flat(insns, 0), Flat(insns, FALSE),
           [x \in insns |-> acc[x].writes], [x \in insns |-> acc[x].reads],
           AllSeq, <<>>, OneDomain)

\* a chain of four instructions, the middle ones in the loop i, that access
\* the local variables
KernelsLongBody ==
    {AccessingKernel({"a", "b", "c", "d"}, insn_inames,
                     ChainDeps({"a", "b", "c", "d"}), acc) :
        insn_inames \in {f \in [{"a", "b", "c", "d"} -> SUBSET {"i"}] :
                             f["b"] = {"i"} /\ f["c"] = {"i"}},
        acc \in LocalAccesses({"a", "b", "c", "d"})}

\* a chain of up to three instructions in the loops i and j, j inside i, that
\* access the local variables
KernelsNested ==
    UNION {
        {AccessingKernel(insns, insn_inames, ChainDeps(insns), acc) :
            insn_inames \in {f \in [insns -> {{}, {"i"}, {"i", "j"}}] :
                                 Unimodal(insns, f)},
            acc \in LocalAccesses(insns)} :
        insns \in {{"a", "b"}, {"a", "b", "c"}}}

\* two instructions, dependent or not, that access a local and a global
\* variable
KernelsGlobal ==
    {AccessingKernel({"a", "b"}, insn_inames, insn_deps, acc) :
        insn_inames \in [{"a", "b"} -> SUBSET {"i"}],
        insn_deps \in AcyclicDeps({"a", "b"}),
        acc \in Accesses({"a", "b"}, {"t", "g"})}

BarrierKernels == KernelsLongBody \cup KernelsNested \cup KernelsGlobal

\* a chain of three boostable instructions in the loop i, some also in j
KernelsEscalating ==
    {Kernel({"a", "b", "c"}, insn_inames, ChainDeps({"a", "b", "c"}),
            Flat({"a", "b", "c"}, 0), Flat({"a", "b", "c"}, TRUE),
            NoVars({"a", "b", "c"}), NoVars({"a", "b", "c"}), AllSeq, <<>>,
            OneDomain) :
        insn_inames \in [{"a", "b", "c"} -> {{"i"}, {"i", "j"}}]}

\* the kernels handed to get_one_scheduled_kernel
EntryKernels == KernelsOneIname \cup KernelsPrioritized \cup KernelsEscalating

InitCall ==
    /\ schedule_cache = <<>>
    /\ calls = 0
    /\ gosk_pc = "idle"
    /\ from_cache = FALSE
    /\ kernel_count = 0
    /\ result = NoResult
    /\ ambiguous = FALSE
    /\ returned = <<>>
    /\ gls_pc = "idle"
    /\ gen = 0
    /\ schedule_count = 0
    /\ gls_out = NoResult
    /\ gls_calls = 0
    /\ cache_writes = 0
    /\ stack = <<>>
    /\ debug = ScheduleDebugger(TRUE)
    /\ yielded = <<>>
    /\ peer = Idle

InitSearch ==
    /\ kernel \in SearchKernels
    /\ CACHING_ENABLED = FALSE
    /\ caller = "direct"
    /\ InitCall

NextSearch ==
    \/ IterateSchedules
    \/ NextSchedule
    \/ IterationOver
    \/ NextGenerator
    \/ SchedulingDone
    \/ NoScheduleFound
    \/ ScheduleInsn
    \/ LeaveInnermost
    \/ BuildTiers
    \/ EnterTierLoop
    \/ TierFound
    \/ NextTier
    \/ TiersExhausted
    \/ YieldSchedule
    \/ RetryAllowInsn
    \/ RetryBoost
    \/ DeadEnd

SpecSearch == InitSearch /\ [][NextSearch]_vars

\* the domain of j has the temporary t as a parameter
DataDepDomains == <<[set |-> {"i"}, param |-> {}], [set |-> {"j"}, param |-> {"t"}]>>

\* two instructions over two inames under all tags, one of them writing the
\* bound t of the loop j; writer_insn, = kernel.writer_map()[domain_par]
\* takes exactly one writer
KernelsDataDep ==
    {Kernel({"a", "b"}, insn_inames, insn_deps, Flat({"a", "b"}, 0),
            Flat({"a", "b"}, boostable),
            [x \in {"a", "b"} |-> IF x = writer_insn THEN {"t"} ELSE {}],
            NoVars({"a", "b"}), iname_to_tag, <<>>, DataDepDomains) :
        insn_inames \in [{"a", "b"} -> SUBSET Inames],
        insn_deps \in AcyclicDeps({"a", "b"}),
        iname_to_tag \in [Inames -> Tags],
        writer_insn \in {"a", "b"},
        boostable \in BOOLEAN}

\* the search over the kernels with a data-dependent loop bound
InitDataDep ==
    /\ kernel \in KernelsDataDep
    /\ CACHING_ENABLED = FALSE
    /\ caller = "direct"
    /\ InitCall

SpecDataDep == InitDataDep /\ [][NextSearch]_vars

\* the interpreter runs the caller and the generators one step after the
\* other: a step that can be taken is taken, a yield among them
\* the kernels of the families in which the escalations are taken, ILP
\* loops are left and entered again and some kernels have no schedule
InitSearchLive ==
    /\ kernel \in KernelsTagged \cup KernelsDomains \cup KernelsEscalating
    /\ CACHING_ENABLED = FALSE
    /\ caller = "direct"
    /\ InitCall

SpecSearchLive ==
    /\ InitSearchLive
    /\ [][NextSearch]_vars
    /\ WF_vars(~CanYield /\ NextSearch)
    /\ WF_stack(Yield)

InitBarrier ==
    /\ kernel \in BarrierKernels
    /\ CACHING_ENABLED = FALSE
    /\ caller = "direct"
    /\ InitCall

NextBarrier ==
    \/ IterateSchedules
    \/ NextSchedule
    \/ IterationOver
    \/ SchedulingDone
    \/ ScheduleInsn
    \/ LeaveInnermost
    \/ BuildTiers
    \/ EnterTierLoop
    \/ TierFound
    \/ TiersExhausted
    \/ YieldSchedule
    \/ RetryAllowInsn
    \/ DeadEnd

SpecBarrier == InitBarrier /\ [][NextBarrier]_vars

\* a chain of four instructions, the second one inside the loops i and j and
\* the first one there or outside every loop, that access the local variables
KernelsInnerLoopFirst ==
    {AccessingKernel({"a", "b", "c", "d"}, insn_inames,
                     ChainDeps({"a", "b", "c", "d"}), acc) :
        insn_inames \in {f \in [{"a", "b", "c", "d"} -> {{}, {"i"}, {"i", "j"}}] :
                             f["a"] \in {{}, {"i", "j"}} /\ f["b"] = {"i", "j"}
                                 /\ Unimodal({"a", "b", "c", "d"}, f)},
        acc \in LocalAccesses({"a", "b", "c", "d"})}

\* the search and the barrier pass over the kernels with an inner loop in
\* front
InitInnerLoopFirst ==
    /\ kernel \in KernelsInnerLoopFirst
    /\ CACHING_ENABLED = FALSE
    /\ caller = "direct"
    /\ InitCall

SpecInnerLoopFirst == InitInnerLoopFirst /\ [][NextBarrier]_vars

Init ==
    /\ kernel \in EntryKernels
    /\ CACHING_ENABLED \in BOOLEAN
    /\ caller = "get_one"
    /\ InitCall

Next ==
    \/ CacheHit
    \/ StartScheduling
    \/ UseFirstKernel
    \/ SecondKernel
    \/ FinishScheduling
    \/ PropagateError
    \/ NextGenerator
    \/ SchedulingDone
    \/ StartReplay
    \/ NoScheduleFound
    \/ ScheduleInsn
    \/ LeaveInnermost
    \/ BuildTiers
    \/ EnterTierLoop
    \/ TierFound
    \/ NextTier
    \/ TiersExhausted
    \/ YieldSchedule
    \/ RetryAllowInsn
    \/ RetryBoost
    \/ DeadEnd

Spec == Init /\ [][Next]_vars

\* two threads schedule the same kernel with caching enabled
InitConcurrent ==
    /\ kernel \in EntryKernels
    /\ CACHING_ENABLED = TRUE
    /\ caller = "get_one"
    /\ InitCall

NextConcurrent ==
    \/ SwitchThread
    \/ CacheHit
    \/ StartScheduling
    \/ UseFirstKernel
    \/ SecondKernel
    \/ FinishScheduling
    \/ PropagateError
    \/ NextGenerator
    \/ SchedulingDone
    \/ StartReplay
    \/ NoScheduleFound
    \/ ScheduleInsn
    \/ LeaveInnermost
    \/ BuildTiers
    \/ EnterTierLoop
    \/ TierFound
    \/ NextTier
    \/ TiersExhausted
    \/ YieldSchedule
    \/ RetryAllowInsn
    \/ RetryBoost
    \/ DeadEnd

SpecConcurrent == InitConcurrent /\ [][NextConcurrent]_vars

\* ------------------------------------------------------------------------
\* Properties of the schedules the search yields
\* ------------------------------------------------------------------------

\* the stack-matching scan: the stack of open loops after the schedule, or
\* <<"mismatch">> once a LeaveLoop does not close the innermost open loop
RECURSIVE NestScan(_)
NestScan(schedule) ==
    IF schedule = <<>> THEN <<>>
    ELSE LET open == NestScan(SubSeq(schedule, 1, Len(schedule) - 1))
             sched_item == schedule[Len(schedule)]
         IN  IF open = <<"mismatch">> THEN open
             ELSE CASE sched_item.type = "EnterLoop" -> Append(open, sched_item.iname)
                    [] sched_item.type = "LeaveLoop" ->
                         IF open # <<>> /\ open[Len(open)] = sched_item.iname
                         THEN SubSeq(open, 1, Len(open) - 1)
                         ELSE <<"mismatch">>
                    [] OTHER -> open

WellNested(schedule) == NestScan(schedule) = <<>>

\* the loops open in front of position n
OpenAt(schedule, n) == Range(NestScan(SubSeq(schedule, 1, n - 1)))

PositionsOf(schedule, insn_id) ==
    {n \in DOMAIN schedule : schedule[n] = RunInstruction(insn_id)}

EntriesOf(schedule, iname) ==
    {n \in DOMAIN schedule : schedule[n] = EnterLoop(iname)}

YieldedSchedules == {yielded[n].schedule : n \in DOMAIN yielded}

\* C1: every schedule a search generator yields is well-nested: each
\* LeaveLoop closes the innermost open EnterLoop with the same iname, and no
\* loop is open at the end.
C1_WellNested == \A schedule \in YieldedSchedules : WellNested(schedule)

\* a yielded schedule with a loop inside a loop
C1_Witness ==
    \E schedule \in YieldedSchedules :
        \E n \in DOMAIN schedule : Cardinality(OpenAt(schedule, n)) = 2

\* C2: in every yielded schedule each instruction of the kernel is run by
\* exactly one RunInstruction item.
C2_RunsOnce ==
    \A schedule \in YieldedSchedules :
        \A insn_id \in kernel.insns :
            Cardinality(PositionsOf(schedule, insn_id)) = 1

\* a yielded schedule that leaves an ILP loop and enters it again
C2_Witness ==
    \E schedule \in YieldedSchedules :
        \E iname \in ilp_inames(kernel) :
            Cardinality(EntriesOf(schedule, iname)) = 2

\* the positions of the RunInstruction items of a schedule
RunPositions(schedule) ==
    {n \in DOMAIN schedule : schedule[n].type = "RunInstruction"}

\* C3: at every RunInstruction(X) of a yielded schedule the open loops
\* contain X's inames without the hardware-parallel ones, every further open
\* loop is in X's boostable_into, and in a schedule of the never-boost search
\* the open loops are exactly X's inames without the hardware-parallel ones.
C3_ActiveInames ==
    \A n \in DOMAIN yielded :
        \A p \in RunPositions(yielded[n].schedule) :
            LET insn_id == yielded[n].schedule[p].insn_id
                act == OpenAt(yielded[n].schedule, p)
                want == kernel.insn_inames[insn_id] \ parallel_inames(kernel)
            IN  /\ want \subseteq act
                /\ (act \ want) \subseteq boostable_into(kernel, insn_id)
                /\ yielded[n].gen = 1 => act = want

\* the boost-escalating search yielded a schedule that runs an instruction
\* inside a loop it was boosted into
C3_Witness ==
    \E n \in DOMAIN yielded :
        \E p \in RunPositions(yielded[n].schedule) :
            /\ yielded[n].gen = 2
            /\ OpenAt(yielded[n].schedule, p)
                   \ kernel.insn_inames[yielded[n].schedule[p].insn_id] # {}

\* C4: in every yielded schedule an instruction runs after every instruction
\* it depends on, directly or through a chain of insn_deps.
C4_DepsFirst ==
    \A schedule \in YieldedSchedules :
        \A B \in kernel.insns :
            \A A \in recursive_insn_dep_map(kernel)[B] :
                /\ PositionsOf(schedule, A) # {}
                /\ PositionsOf(schedule, B) # {}
                /\ \A pa \in PositionsOf(schedule, A) :
                       \A pb \in PositionsOf(schedule, B) : pa < pb

\* a schedule was yielded for a kernel in which c depends on a only through b
C4_Witness ==
    /\ yielded # <<>>
    /\ \E B \in kernel.insns :
           recursive_insn_dep_map(kernel)[B] \ kernel.insn_deps[B] # {}

\* ------------------------------------------------------------------------
\* Properties of the schedules with barriers
\* ------------------------------------------------------------------------

Kinds == {"local", "global"}

\* the barrier passes for a kind over a yielded schedule: the forward pass at
\* level 0, which runs the forward and the reverse pass on every loop body
BarrierPasses(kind, schedule) == insert_barriers(kernel, schedule, FALSE, kind, 0)

\* a read-after-write, write-after-read or write-after-write pair of accesses
\* of A and B to a variable of the kind
Hazard(A, B, kind) ==
    LET relevant_vars == IF kind = "local" THEN local_var_names(kernel)
                         ELSE global_var_names(kernel)
    IN  relevant_vars \cap ((kernel.writes[A] \cap kernel.reads[B])
                            \cup (kernel.reads[A] \cap kernel.writes[B])
                            \cup (kernel.writes[A] \cap kernel.writes[B])) # {}

BarriersOf(schedule) == {n \in DOMAIN schedule : schedule[n].type = "Barrier"}

\* every hazardous dependent pair of the schedule has a barrier of the kind,
\* or of a more global one, between its two RunInstruction items
Guarded(schedule, kind) ==
    \A pa \in RunPositions(schedule) : \A pb \in RunPositions(schedule) :
        (/\ pa < pb
         /\ schedule[pa].insn_id \in recursive_insn_dep_map(kernel)[schedule[pb].insn_id]
         /\ Hazard(schedule[pa].insn_id, schedule[pb].insn_id, kind))
            => \E m \in (pa + 1)..(pb - 1) : is_clearing_barrier(schedule[m], kind)

\* C5: after the barrier passes for a kind, every pair of instructions A
\* before B, with B depending on A and a hazard on a variable of the kind,
\* has a barrier of that kind or a more global one between A and B.
C5_BarrierSound ==
    \A schedule \in YieldedSchedules :
        \A kind \in Kinds : Guarded(BarrierPasses(kind, schedule), kind)

\* C6: after the barrier passes for a kind over a yielded schedule, no
\* Barrier is immediately followed by a Barrier, and between any two Barriers
\* there is a RunInstruction.
C6_NoAdjacentBarriers ==
    \A schedule \in YieldedSchedules :
        \A kind \in Kinds :
            LET scheduled == BarrierPasses(kind, schedule)
            IN  \A m \in BarriersOf(scheduled) : \A n \in BarriersOf(scheduled) :
                    m < n => /\ n # m + 1
                             /\ \E p \in RunPositions(scheduled) : m < p /\ p < n

\* the passes put two barriers into a schedule
C6_Witness ==
    \E schedule \in YieldedSchedules :
        \E kind \in Kinds :
            Cardinality(BarriersOf(BarrierPasses(kind, schedule))) >= 2

\* the kernel of the example: A writes the local tmp, B reads it and depends
\* on A, both in the sequential loop i (a, b and t stand for A, B and tmp)
C8_Scenario ==
    /\ kernel.insns = {"a", "b"}
    /\ kernel.insn_inames = [x \in {"a", "b"} |-> {"i"}]
    /\ kernel.insn_deps = [a |-> {}, b |-> {"a"}]
    /\ kernel.writes = [a |-> {"t"}, b |-> {}]
    /\ kernel.reads = [a |-> {}, b |-> {"t"}]
    /\ kernel.iname_to_tag["i"] = "seq"

\* the scheduled kernels generate_loop_schedules yielded
FinalizedSchedules ==
    {yielded[n].scheduled : n \in {m \in DOMAIN yielded : yielded[m].gen # 3}}

\* C8 as stated: the finalized schedule of the example has the single
\* barrier between A and B.
C8_SingleBarrier ==
    C8_Scenario =>
        \A scheduled \in FinalizedSchedules :
            scheduled = <<EnterLoop("i"), RunInstruction("a"), Barrier("local"),
                          RunInstruction("b"), LeaveLoop("i")>>

\* C8: the finalized schedule of the example has a barrier between A and B
\* and, from the reverse pass over the loop body, one in front of A.
C8_TwoBarriers ==
    C8_Scenario =>
        \A scheduled \in FinalizedSchedules :
            scheduled = <<EnterLoop("i"), Barrier("local"), RunInstruction("a"),
                          Barrier("local"), RunInstruction("b"), LeaveLoop("i")>>

\* generate_loop_schedules yielded the scheduled kernel of the example
C8_Witness == C8_Scenario /\ FinalizedSchedules # {}

\* ------------------------------------------------------------------------
\* Properties of the loop nest
\* ------------------------------------------------------------------------

\* at every EnterLoop of the schedule the loops of loop_nest_map are open or
\* hardware-parallel
NestRespected(schedule) ==
    \A iname \in all_inames(kernel) :
        \A n \in EntriesOf(schedule, iname) :
            loop_nest_map(kernel)[iname]
                \subseteq (OpenAt(schedule, n) \cup parallel_inames(kernel))

\* every instruction that uses inner also uses outer, and some instruction
\* uses outer and nothing else
NestsOnlyByUse(inner, outer) ==
    /\ inner # outer
    /\ iname_to_insns(kernel)[inner] # {}
    /\ iname_to_insns(kernel)[inner] \subseteq iname_to_insns(kernel)[outer]
    /\ \E x \in kernel.insns : kernel.insn_inames[x] = {outer}

\* every EnterLoop(inner) comes after an EnterLoop(outer)
EntersFirst(schedule, outer, inner) ==
    \A pj \in EntriesOf(schedule, inner) :
        \E pi \in EntriesOf(schedule, outer) : pi < pj

\* no instruction that uses outer alone runs while inner is open, unless the
\* loops of allowed may be open
RunsOutside(schedule, outer, inner, allowed(_)) ==
    \A x \in {y \in kernel.insns : kernel.insn_inames[y] = {outer}} :
        \A p \in PositionsOf(schedule, x) :
            inner \in OpenAt(schedule, p) => inner \in allowed(x)

Nowhere(x) == {}

BoostableInto(x) == boostable_into(kernel, x)

\* C9 as stated: the loop nest map is respected at every EnterLoop, and a
\* loop j that nests in i only by use is entered after i, the instruction
\* that uses i alone never running inside j.
C9_NestAlways ==
    \A schedule \in YieldedSchedules :
        /\ NestRespected(schedule)
        /\ \A i \in Inames : \A j \in Inames :
               NestsOnlyByUse(j, i)
                   => /\ EntersFirst(schedule, i, j)
                      /\ RunsOutside(schedule, i, j, Nowhere)

\* C9: the loop nest map is respected at every EnterLoop; a loop j that
\* nests in i only by use is entered after i when i is neither ILP-tagged nor
\* hardware-parallel; the instruction that uses i alone runs inside j only
\* when j is in its boostable_into, and never in a schedule of the
\* never-boost search.
C9_Nest ==
    \A n \in DOMAIN yielded :
        /\ NestRespected(yielded[n].schedule)
        /\ \A i \in Inames : \A j \in Inames :
               NestsOnlyByUse(j, i)
                   => /\ kernel.iname_to_tag[i] \notin {"ilp", "par"}
                             => EntersFirst(yielded[n].schedule, i, j)
                      /\ RunsOutside(yielded[n].schedule, i, j, BoostableInto)
                      /\ yielded[n].gen = 1
                             => RunsOutside(yielded[n].schedule, i, j, Nowhere)

\* a yielded schedule enters j, which nests in the sequential i only by use
C9_Witness ==
    \E schedule \in YieldedSchedules :
        \E i \in Inames : \E j \in Inames :
            /\ NestsOnlyByUse(j, i)
            /\ kernel.iname_to_tag[i] = "seq"
            /\ EntriesOf(schedule, j) # {}
            /\ \E x \in kernel.insns :
                   kernel.insn_inames[x] = {i} /\ PositionsOf(schedule, x) # {}

\* ------------------------------------------------------------------------
\* Properties of generate_loop_schedules and get_one_scheduled_kernel
\* ------------------------------------------------------------------------

\* the generator a frame of the search belongs to, by its allow_boost
FramesOf(generator) ==
    \A n \in DOMAIN stack :
        (stack[n].allow_boost = "None") <=> (generator = 1)

\* C10: the never-boost search runs first; once it has yielded a schedule,
\* the boost-escalating search is never started and all schedules yielded
\* are its own; the boost-escalating search is started only when the
\* never-boost search is exhausted and schedule_count is 0.
C10_UnboostedFirst ==
    /\ [](/\ gls_pc = "running" /\ gen \in {1, 2} => FramesOf(gen)
          /\ \A n \in DOMAIN yielded : yielded[n].gen = 1 => gen = 1
          /\ \A n \in DOMAIN yielded : yielded[n].gen = gen)
    /\ [][/\ gen' # gen => \/ gen = 0 /\ gen' = 1
                           \/ /\ gen = 1 /\ gen' = 2
                              /\ stack = <<>>
                              /\ schedule_count = 0
                              /\ yielded = <<>>]_vars

\* the never-boost search yielded two schedules and generate_loop_schedules
\* ended
C10_Witness == gen = 1 /\ gls_pc = "done" /\ Len(yielded) >= 2

\* C7: with caching enabled, once a call of get_one_scheduled_kernel has
\* returned, every later call returns the same result from schedule_cache:
\* generate_loop_schedules was started once by the call that succeeded and
\* once by every call that raised before it, and the cache was written once.
C7_CacheIdempotent ==
    (CACHING_ENABLED /\ returned # <<>>) =>
        /\ \A n \in DOMAIN returned : returned[n] = returned[1]
        /\ kernel \in DOMAIN schedule_cache
        /\ schedule_cache[kernel].result = returned[1]
        /\ cache_writes = 1
        /\ gls_calls = calls - Len(returned) + 1
        /\ Len(returned) >= 2 => from_cache

\* the second call has returned the cached result
C7_Witness ==
    /\ CACHING_ENABLED
    /\ Len(returned) = 2
    /\ from_cache
    /\ gls_calls = 1

\* the scheduled kernel generate_loop_schedules yielded last
LastYielded == yielded[Len(yielded)].scheduled

\* C11: get_one_scheduled_kernel takes the first scheduled kernel that
\* generate_loop_schedules yields as its result, takes a second one only to
\* set ambiguous, and then returns the first without resuming the generator;
\* a call that was not served from the cache returns with ambiguous set
\* exactly when it took two.
C11_AtMostTwo ==
    /\ [](/\ kernel_count \in 0..2
          /\ (gosk_pc = "returned" /\ ~from_cache)
                 => /\ kernel_count \in 1..2
                    /\ ambiguous <=> kernel_count = 2
                    /\ result = returned[Len(returned)])
    /\ [][/\ (kernel_count' # kernel_count /\ kernel_count' # 0)
                 => /\ kernel_count' = kernel_count + 1
                    /\ gls_pc = "yielded"
                    /\ schedule_count = kernel_count
          /\ (kernel_count = 0 /\ kernel_count' = 1)
                 => /\ result' = LastYielded
                    /\ ~ambiguous'
                    /\ gosk_pc' = "pulling"
          /\ (kernel_count = 1 /\ kernel_count' = 2)
                 => /\ result' = result
                    /\ ambiguous'
                    /\ gosk_pc' = "returned"
                    /\ returned' = Append(returned, result)
                    /\ gls_pc' = "closed"
          /\ (gls_pc = "closed" /\ gls_calls' = gls_calls)
                 => /\ gls_pc' = "closed"
                    /\ stack' = stack
                    /\ yielded' = yielded]_vars

\* the call returned after the second scheduled kernel, with the search not
\* yet exhausted
C11_Witness ==
    /\ gosk_pc = "returned"
    /\ ~from_cache
    /\ ambiguous
    /\ kernel_count = 2
    /\ gls_pc = "closed"
    /\ stack # <<>>
    /\ Len(yielded) = 2
    /\ yielded[1].scheduled # yielded[2].scheduled

\* C12: when a call of get_one_scheduled_kernel returns with ambiguous set by
\* itself, the two scheduled kernels it took have different schedules.
C12_AmbiguousMeansDistinct ==
    (gosk_pc = "returned" /\ ~from_cache /\ ambiguous)
        => yielded[Len(yielded) - 1].schedule # yielded[Len(yielded)].schedule

\* C13: generate_loop_schedules raises exactly when the never-boost and the
\* boost-escalating search are both exhausted and no schedule was yielded:
\* it raises only then, it can do nothing else then (but for the interactive
\* replay in between), and it ends normally only with schedule_count > 0;
\* get_one_scheduled_kernel passes the error on without returning anything
\* and without writing schedule_cache.
C13_RaisesIffNone ==
    /\ [](/\ gls_pc = "raised" => stack = <<>> /\ schedule_count = 0 /\ gen \in {2, 3}
          /\ gls_pc = "done" => schedule_count > 0
          /\ gosk_pc = "raised" => gls_pc = "raised"
          /\ cache_writes <= Len(returned))
    /\ [][/\ (gls_pc' = "raised" /\ gls_pc # "raised")
                 => /\ gls_pc = "running"
                    /\ stack = <<>>
                    /\ schedule_count = 0
                    /\ gen \in {2, 3}
          /\ (gls_pc = "running" /\ stack = <<>> /\ schedule_count = 0 /\ gen = 2)
                 => \/ gls_pc' = "raised"
                    \/ debug.interactive /\ gen' = 3
          /\ (gls_pc = "running" /\ stack = <<>> /\ gen = 3)
                 => gls_pc' = "raised"
          /\ (gosk_pc' = "raised" /\ gosk_pc # "raised")
                 => /\ gls_pc = "raised"
                    /\ schedule_cache' = schedule_cache
                    /\ cache_writes' = cache_writes
                    /\ returned' = returned]_vars

\* with caching enabled the second call has raised like the first, and the
\* cache is empty
C13_Witness ==
    /\ CACHING_ENABLED
    /\ calls = 2
    /\ gosk_pc = "raised"
    /\ returned = <<>>
    /\ schedule_cache = <<>>
    /\ gls_calls = 2

\* the inames a schedule enters or leaves
LoopInamesOf(schedule) ==
    {schedule[n].iname :
        n \in {m \in DOMAIN schedule : schedule[m].type \in {"EnterLoop", "LeaveLoop"}}}

\* C14: no schedule of a call of the search, partial or complete, and no
\* yielded schedule has an EnterLoop or a LeaveLoop of a hardware-parallel
\* iname.
C14_ParallelNeverEntered ==
    /\ \A n \in DOMAIN stack :
           LoopInamesOf(stack[n].schedule) \cap parallel_inames(kernel) = {}
    /\ \A schedule \in YieldedSchedules :
           LoopInamesOf(schedule) \cap parallel_inames(kernel) = {}

\* a yielded schedule runs an instruction that uses the parallel i inside
\* the loop j
C14_Witness ==
    \E schedule \in YieldedSchedules :
        \E p \in RunPositions(schedule) :
            /\ kernel.insn_inames[schedule[p].insn_id] \cap parallel_inames(kernel) # {}
            /\ OpenAt(schedule, p) # {}

\* C16: two runs of get_one_scheduled_kernel on the same kernel, with nothing
\* cached between them, return the same scheduled kernel.
C16_SameResult ==
    (~CACHING_ENABLED /\ Len(returned) = 2) => returned[1] = returned[2]

\* what a call of the search does next, computed from the frames, the
\* generator and the kernel alone, with no ScheduleDebugger in sight: the
\* sets of frames that can follow
StepsWithoutObserver(frames, generator) ==
    LET f == frames[Len(frames)]
        rec == IF f.allow_boost = "None" THEN "None" ELSE "False"
        ready == ready_insn_ids(kernel, f.schedule, f.allow_boost)
        end_of_call ==
            IF is_complete(kernel, f.schedule)
            THEN {IF generator = 3
                  THEN Return(mark_found(frames))
                  ELSE [mark_found(frames) EXCEPT ![Len(frames)].pc = "yielded"]}
            ELSE IF ~f.allow_insn /\ f.pc # "retry_insn"
            THEN {Call(frames, "retry_insn", Frame(f.schedule, f.allow_boost, TRUE))}
            ELSE IF f.allow_boost = "False"
            THEN {Call(frames, "fwd", Frame(f.schedule, "True", f.allow_insn))}
            ELSE {Return(frames)}
    IN  CASE f.pc = "begin" ->
               IF f.allow_insn /\ ready # {}
               THEN {Call(frames, "fwd",
                          Frame(Append(f.schedule, RunInstruction(x)), rec, TRUE)) :
                        x \in first_ready_insn_ids(kernel, f.schedule, f.allow_boost)}
               ELSE IF can_leave(kernel, f.schedule)
               THEN {Call(frames, "fwd",
                          Frame(Append(f.schedule,
                                       LeaveLoop(last_entered_loop(f.schedule))),
                                rec, f.allow_insn))}
               ELSE IF needed_inames(kernel, f.schedule) # {}
               THEN {[frames EXCEPT ![Len(frames)].pc = "tiers",
                                    ![Len(frames)].tier = Head(tiers),
                                    ![Len(frames)].tiers = Tail(tiers)] :
                        tiers \in priority_tiers(kernel, f.schedule, f.allow_boost)}
               ELSE end_of_call
          [] f.pc = "tiers" ->
               IF f.tier # {}
               THEN {Append([frames EXCEPT ![Len(frames)].tier = @ \ {iname}],
                            Frame(Append(f.schedule, EnterLoop(iname)), rec, FALSE)) :
                        iname \in first_of_tier(kernel, f.schedule, f.allow_boost, f.tier)}
               ELSE IF f.found_viable_schedule
               THEN {Return(frames)}
               ELSE IF f.tiers # <<>>
               THEN {[frames EXCEPT ![Len(frames)].tier = Head(f.tiers),
                                    ![Len(frames)].tiers = Tail(f.tiers)]}
               ELSE {[frames EXCEPT ![Len(frames)].pc = "final"]}
          [] f.pc \in {"final", "retry_insn"} -> end_of_call
          [] OTHER -> {}

\* C15: the ScheduleDebugger is passive.  In every state in which a call of
\* the search runs, whatever the counters and the longest rejected schedule
\* of the debugger are, the step the search takes is one of the steps that
\* follow from its frames, the generator and the kernel alone, and a schedule
\* it yields is the schedule of the running call.
C15_ObserverPassive ==
    [][Running =>
          /\ stack' \in StepsWithoutObserver(stack, gen)
          /\ yielded' # yielded
                 => /\ Len(yielded') = Len(yielded) + 1
                    /\ yielded'[Len(yielded')].schedule = stack[Len(stack)].schedule
                    /\ SubSeq(yielded', 1, Len(yielded)) = yielded]_vars

\* the replay is over: the search ran under a debugger with dead ends
\* counted and a longest rejected schedule kept
C15_Witness ==
    /\ gen = 3
    /\ gls_pc = "raised"
    /\ debug.debug_length > 0
    /\ debug.dead_end_counter > 2

\* an iname that some yielded schedule enters more than once
Reentered(schedule) ==
    {iname \in Inames : Cardinality(EntriesOf(schedule, iname)) > 1}

\* C17: every search generator terminates.  A generator that has been
\* started is exhausted after finitely many steps, and with it the iteration
\* of the caller ends, by returning or by the error of a kernel without a
\* schedule.
C17_Terminates ==
    /\ (stack # <<>>) ~> (stack = <<>>)
    /\ <>(gosk_pc \in {"returned", "raised"})

\* the iteration over a kernel without a schedule is over: both generators
\* were exhausted over dead ends, the second after its escalations
C17_Witness ==
    /\ gosk_pc = "raised"
    /\ stack = <<>>
    /\ gen = 2
    /\ yielded = <<>>
    /\ debug.dead_end_counter > 1
    /\ Len(debug.longest_rejected_schedule) > 2

\* C18: two concurrent calls of get_one_scheduled_kernel on one kernel, with
\* caching enabled.  Under every interleaving of their cache reads, searches
\* and cache writes, every result returned is a scheduled kernel that a
\* search of this kernel yielded, the cache holds at most the one entry of
\* the kernel, a write replaces it by the result and the ambiguity flag of
\* the writer as a whole, the entry is the value written last (which is the
\* result returned last), and a call fails only when no call finds a
\* schedule.
C18_ConcurrentCalls ==
    /\ [](/\ DOMAIN schedule_cache \subseteq {kernel}
          /\ \A n \in DOMAIN returned :
                 \E m \in DOMAIN yielded :
                     /\ yielded[m].gen # 3
                     /\ yielded[m].scheduled = returned[n]
          /\ kernel \in DOMAIN schedule_cache
                 => schedule_cache[kernel].result = returned[Len(returned)]
          /\ (gosk_pc = "raised" \/ peer.gosk_pc = "raised") => returned = <<>>)
    /\ [][schedule_cache' # schedule_cache
              => /\ gosk_pc' = "returned"
                 /\ ~from_cache
                 /\ schedule_cache' =
                        [key \in {kernel} |->
                            [result |-> result', ambiguous |-> ambiguous']]]_vars

\* both threads missed the cache, both searched and both wrote, the second
\* a result that differs from the first
C18_Witness ==
    /\ calls = 2
    /\ cache_writes = 2
    /\ Len(returned) = 2
    /\ returned[1] # returned[2]
    /\ gosk_pc = "returned"
    /\ peer.gosk_pc = "returned"
    /\ schedule_cache[kernel].result = returned[2]

\* C19: the escalation at a dead end is exclusive.  A call whose retry with
\* allow_insn=True is over calls nothing more: it makes no retry with
\* allow_boost=True after it.
C19_ExclusiveRetries ==
    [][(Running /\ Top.pc = "retry_insn") => Len(stack') <= Len(stack)]_vars

\* C20: a dead end is logged only by a call that yields nothing.  Seen at
\* the outermost call of a generator, whose schedules are the schedules of
\* the generator: when it logs a dead end (its retry with allow_insn=True
\* being over), the generator has yielded no schedule.
C20_DeadEndYieldsNothing ==
    [][(/\ Running
        /\ Len(stack) = 1
        /\ debug'.dead_end_counter > debug.dead_end_counter)
           => \A n \in DOMAIN yielded : yielded[n].gen # gen]_vars

\* the running call appends item to its schedule and calls itself
Appends(item) ==
    /\ Running
    /\ Len(stack') = Len(stack) + 1
    /\ stack'[Len(stack')].schedule = Append(Top.schedule, item)

\* readiness as the specification words it
ReadyAsSpecified(schedule, allow_boost, insn_id) ==
    /\ insn_id \notin scheduled_insn_ids(schedule)
    /\ kernel.insn_deps[insn_id] \subseteq scheduled_insn_ids(schedule)
    /\ kernel.insn_inames[insn_id] \ parallel_inames(kernel)
           = IF allow_boost = "True"
             THEN active_inames_set(schedule) \ boostable_into(kernel, insn_id)
             ELSE active_inames_set(schedule)

\* C21: whenever the search appends RunInstruction(X), X is ready (its
\* dependencies are scheduled and its non-parallel inames are the active
\* inames, less X.boostable_into under boosting), and no other unscheduled
\* ready instruction has a strictly higher priority than X.
C21_RunsReadyByPriority ==
    [][\A insn_id \in InsnIds :
          Appends(RunInstruction(insn_id))
              => /\ insn_id \in kernel.insns
                 /\ ReadyAsSpecified(Top.schedule, Top.allow_boost, insn_id)
                 /\ \A other \in kernel.insns :
                        ReadyAsSpecified(Top.schedule, Top.allow_boost, other)
                            => kernel.priority[other] <= kernel.priority[insn_id]]_vars

\* some call has run an instruction while another ready one, of lower
\* priority, had to wait
C21_Witness ==
    \E n \in DOMAIN stack :
        /\ n > 1
        /\ \E insn_id \in kernel.insns :
               /\ stack[n].schedule
                      = Append(stack[n - 1].schedule, RunInstruction(insn_id))
               /\ \E other \in kernel.insns :
                      /\ ReadyAsSpecified(stack[n - 1].schedule,
                                          stack[n - 1].allow_boost, other)
                      /\ kernel.priority[other] < kernel.priority[insn_id]

\* the frame at n has run an instruction or left a loop, and waits for the
\* call it made with the longer schedule
Forced(frames, n) ==
    /\ n < Len(frames)
    /\ Len(frames[n + 1].schedule) = Len(frames[n].schedule) + 1
    /\ frames[n + 1].schedule[Len(frames[n + 1].schedule)].type
           \in {"RunInstruction", "LeaveLoop"}

C23_LeaveOnlyFinished ==
    [][\A iname \in Inames :
          (Appends(LeaveLoop(iname)) /\ iname \notin ilp_inames(kernel))
              => \A insn_id \in unscheduled_insn_ids(kernel, Top.schedule) :
                     iname \notin kernel.insn_inames[insn_id]]_vars

\* some call has left a loop that is not an ILP loop while instructions
\* were left to schedule
C23_Witness ==
    \E n \in DOMAIN stack :
        /\ stack[n].schedule # <<>>
        /\ stack[n].schedule[Len(stack[n].schedule)].type = "LeaveLoop"
        /\ stack[n].schedule[Len(stack[n].schedule)].iname \notin ilp_inames(kernel)
        /\ unscheduled_insn_ids(kernel, stack[n].schedule) # {}

\* how many items of the given type lie at the positions n..m
CountType(schedule, type, n, m) ==
    Cardinality({p \in n..m : schedule[p].type = type})

\* the LeaveLoop positions that close the EnterLoop at n
ClosingOf(schedule, n) ==
    {m \in DOMAIN schedule :
        /\ m > n
        /\ schedule[m].type = "LeaveLoop"
        /\ CountType(schedule, "EnterLoop", n, m) = CountType(schedule, "LeaveLoop", n, m)
        /\ \A p \in n..(m - 1) :
               CountType(schedule, "EnterLoop", n, p) > CountType(schedule, "LeaveLoop", n, p)}

\* every loop that is closed in the schedule has run an instruction
NoEmptyLoop(schedule) ==
    \A n \in DOMAIN schedule :
        schedule[n].type = "EnterLoop"
            => \A m \in ClosingOf(schedule, n) :
                   CountType(schedule, "RunInstruction", n, m) > 0

\* C24: no schedule has an empty loop.  Between every EnterLoop and the
\* LeaveLoop that closes it there is a RunInstruction, directly or inside a
\* nested loop, for ILP inames as for the others; in the schedules the search
\* yields, in those with the barriers inserted, and in every schedule a call
\* works on.
C24_NoEmptyLoop ==
    /\ \A n \in DOMAIN yielded :
           /\ NoEmptyLoop(yielded[n].schedule)
           /\ yielded[n].gen # 3 => NoEmptyLoop(yielded[n].scheduled)
    /\ \A n \in DOMAIN stack : NoEmptyLoop(stack[n].schedule)

\* a yielded schedule with an ILP loop, and with a loop whose instructions
\* all lie inside a nested loop
C24_Witness ==
    \E schedule \in YieldedSchedules :
        /\ \E n \in DOMAIN schedule :
               /\ schedule[n].type = "EnterLoop"
               /\ schedule[n].iname \in ilp_inames(kernel)
        /\ \E n \in DOMAIN schedule :
               /\ schedule[n].type = "EnterLoop"
               /\ \E m \in ClosingOf(schedule, n) :
                      /\ schedule[n + 1].type = "EnterLoop"
                      /\ schedule[m - 1].type = "LeaveLoop"
                      /\ ClosingOf(schedule, n + 1) = {m - 1}

\* the lists of tiers in the order of C25, where the inames of `own` are
\* the ones of loop_priority that get a tier of their own
TiersInOrder(schedule, allow_boost, own) ==
    LET useful == useful_loops_set(kernel, schedule, allow_boost)
        listed == SelectSeq(kernel.loop_priority,
                      LAMBDA iname : iname \in useful \cap own)
        others == {iname \in useful : /\ iname \notin Range(kernel.loop_priority)
                                      /\ iname \notin ilp_inames(kernel)
                                      /\ iname \notin vec_inames(kernel)}
        singletons(p) == [n \in 1..Len(p) |-> {p[n]}]
    IN  {singletons(listed) \o <<others>> \o singletons(p) \o singletons(q) :
            p \in Perms(ilp_inames(kernel) \cap useful),
            q \in Perms(vec_inames(kernel) \cap useful)}

\* the running call has just built its tiers
BuiltTiers ==
    /\ Running
    /\ Top.pc = "begin"
    /\ Len(stack') = Len(stack)
    /\ stack'[Len(stack)].pc = "tiers"

\* the steps of a call go through its tiers in order, and through a tier by
\* descending usefulness
TiersWalkedInOrder ==
    /\ \A iname \in Inames :
          Appends(EnterLoop(iname)) =>
              /\ Top.pc = "tiers"
              /\ iname \in Top.tier
              /\ stack'[Len(stack)].tier = Top.tier \ {iname}
              /\ stack'[Len(stack)].tiers = Top.tiers
              /\ LET usefulness == iname_to_usefulness(kernel, Top.schedule, Top.allow_boost)
                 IN  \A other \in Top.tier : usefulness[other] <= usefulness[iname]
    /\ \A n \in DOMAIN stack \cap DOMAIN stack' :
          (stack[n].pc = "tiers" /\ stack'[n].pc = "tiers"
              /\ stack'[n].schedule = stack[n].schedule
              /\ Len(stack') <= Len(stack)) =>
              \/ stack'[n].tier = stack[n].tier /\ stack'[n].tiers = stack[n].tiers
              \/ /\ n = Len(stack)
                 /\ stack[n].tier = {}
                 /\ stack[n].tiers # <<>>
                 /\ stack'[n].tier = Head(stack[n].tiers)
                 /\ stack'[n].tiers = Tail(stack[n].tiers)

\* two independent instructions, one in the sequential iname p and one in
\* the sequential iname q, and the loop_priority [p, q]
TwoIndependentLoops(p, q) ==
    /\ p # q
    /\ kernel.iname_to_tag[p] = "seq"
    /\ kernel.iname_to_tag[q] = "seq"
    /\ kernel.loop_priority = <<p, q>>
    /\ \E x, y \in kernel.insns :
          /\ kernel.insns = {x, y}
          /\ kernel.insn_inames[x] = {p}
          /\ kernel.insn_inames[y] = {q}
          /\ kernel.insn_deps[x] = {}
          /\ kernel.insn_deps[y] = {}

\* the schedule enters p, and does so before it enters q
EntersBefore(schedule, p, q) ==
    \E n \in DOMAIN schedule :
        /\ schedule[n] = EnterLoop(p)
        /\ \A m \in DOMAIN schedule : schedule[m] = EnterLoop(q) => n < m

\* every schedule produced for two independent loops follows loop_priority
PriorityDecides ==
    \A p, q \in Inames :
        TwoIndependentLoops(p, q) =>
            \A n \in DOMAIN yielded : EntersBefore(yielded[n].schedule, p, q)

\* C25 (as amended): the tiers of a call are, in this order, one singleton
\* tier per useful iname of loop_priority that is neither ILP nor vectorize,
\* in loop_priority order, then one tier of all useful inames that are not
\* in loop_priority and neither ILP nor vectorize, then one singleton tier
\* per useful ILP iname, then one per useful vectorize iname; the tiers are
\* tried in that order and the inames of a tier by descending usefulness;
\* and for two independent instructions in disjoint sequential inames p and
\* q, loop_priority [p, q] makes every produced schedule enter p before q.
C25_TierOrder ==
    /\ [][/\ BuiltTiers =>
                 <<stack'[Len(stack)].tier>> \o stack'[Len(stack)].tiers
                     \in TiersInOrder(Top.schedule, Top.allow_boost,
                             (Inames \ ilp_inames(kernel)) \ vec_inames(kernel))
          /\ TiersWalkedInOrder]_vars
    /\ []PriorityDecides

\* C25 as stated: every useful iname listed in loop_priority, an ILP or
\* vectorize one too, gets a singleton tier in the first group
C25_TierOrderAsStated ==
    /\ [][/\ BuiltTiers =>
                 <<stack'[Len(stack)].tier>> \o stack'[Len(stack)].tiers
                     \in TiersInOrder(Top.schedule, Top.allow_boost, Inames)
          /\ TiersWalkedInOrder]_vars
    /\ []PriorityDecides

\* a schedule was produced for two independent loops with loop_priority
\* [j, i], and the call at the root went through a tier of its own for j
C25_Witness ==
    /\ TwoIndependentLoops("j", "i")
    /\ yielded # <<>>
    /\ stack # <<>>
    /\ stack[1].pc = "tiers"
    /\ Len(stack[1].tiers) = 2

\* p is the beginning of s
StartsWith(s, p) == Len(p) <= Len(s) /\ SubSeq(s, 1, Len(p)) = p

\* the running generator yielded a schedule that goes on from the partial
\* schedule by entering iname
YieldedThrough(schedule, iname) ==
    \E n \in DOMAIN yielded :
        /\ yielded[n].gen = gen
        /\ StartsWith(yielded[n].schedule, Append(schedule, EnterLoop(iname)))

\* the tier of iname among the tiers of the call
TierOf(schedule, allow_boost, iname) ==
    UNION {tier \in UNION {Range(tiers) : tiers \in priority_tiers(kernel, schedule, allow_boost)} :
               iname \in tier}

\* the inames of the tiers the running call has behind it when it enters iname
EarlierTiers(iname) ==
    (useful_loops_set(kernel, Top.schedule, Top.allow_boost)
        \ TierOf(Top.schedule, Top.allow_boost, iname)) \ UNION Range(Top.tiers)

\* C26: a call enters an iname only if no iname of an earlier tier of the
\* call has led to a complete schedule from its partial schedule, so that
\* after a tier that found a schedule no later tier is entered; and a call
\* returns from its tiers only when every iname of the tier it is at has
\* been tried.
C26_TierShortCircuit ==
    [][/\ \A iname \in Inames :
             Appends(EnterLoop(iname)) =>
                 \A other \in EarlierTiers(iname) :
                     ~YieldedThrough(Top.schedule, other)
       /\ (Running /\ Top.pc = "tiers" /\ Len(stack') < Len(stack)
              /\ gls_pc' = "running" /\ gen' = gen) =>
              /\ Top.tier = {}
              /\ \E n \in DOMAIN yielded :
                    /\ yielded[n].gen = gen
                    /\ StartsWith(yielded[n].schedule, Top.schedule)]_vars

\* a call is through a tier that found a schedule and has an iname left in
\* a later tier
C26_Witness ==
    \E n \in DOMAIN stack :
        /\ stack[n].pc = "tiers"
        /\ stack[n].tier = {}
        /\ stack[n].found_viable_schedule
        /\ \E m \in DOMAIN stack[n].tiers : stack[n].tiers[m] # {}

\* the schedule runs an instruction right behind the EnterLoop at n
RunsRightAfterEnter(schedule, n) ==
    /\ n < Len(schedule)
    /\ schedule[n].type = "EnterLoop"
    /\ schedule[n + 1].type = "RunInstruction"

\* a loop-entry tier yielded a schedule from the partial schedule
TierYieldedFrom(schedule) ==
    \E iname \in Inames, m \in DOMAIN yielded :
        StartsWith(yielded[m].schedule, Append(schedule, EnterLoop(iname)))

\* the allow_insn of the call made by the step for the appended item
GateOfCall ==
    /\ \A iname \in Inames :
          Appends(EnterLoop(iname)) => ~stack'[Len(stack')].allow_insn
    /\ \A insn_id \in InsnIds :
          Appends(RunInstruction(insn_id)) => stack'[Len(stack')].allow_insn
    /\ \A iname \in Inames :
          Appends(LeaveLoop(iname)) => stack'[Len(stack')].allow_insn = Top.allow_insn

\* no produced schedule runs an instruction right behind an EnterLoop from
\* which a loop-entry tier yielded a schedule
GateHolds ==
    \A n \in DOMAIN yielded :
        \A m \in DOMAIN yielded[n].schedule :
            RunsRightAfterEnter(yielded[n].schedule, m) =>
                ~TierYieldedFrom(SubSeq(yielded[n].schedule, 1, m))

\* C27: the call made after appending an EnterLoop has allow_insn False,
\* the one after a RunInstruction has allow_insn True and the one after a
\* LeaveLoop the allow_insn of its caller; and a produced schedule has a
\* RunInstruction right after an EnterLoop only if no loop-entry tier
\* yielded a schedule from the partial schedule that ends in that EnterLoop.
C27_GateAfterEnter == [][GateOfCall]_vars /\ []GateHolds

\* the temporaries among the parameters of the home domain of iname
DataDepParams(iname) ==
    kernel.domains[get_home_domain_index(kernel, iname)].param \cap kernel.temps

\* every instruction writing a temporary that bounds a loop runs before
\* the schedule enters the loop
WritersFirst(schedule) ==
    \A m \in DOMAIN schedule :
        schedule[m].type = "EnterLoop" =>
            \A domain_par \in DataDepParams(schedule[m].iname) :
                \A writer_insn \in writer_map(kernel)[domain_par] :
                    \E n \in 1..(m - 1) : schedule[n] = RunInstruction(writer_insn)

\* C28: if the home domain of an iname has a temporary variable as a
\* parameter, then in every produced schedule, with and without the
\* barriers, the RunInstruction of the instruction that writes the
\* variable comes before every EnterLoop of the iname.
C28_DataDepBounds ==
    \A n \in DOMAIN yielded :
        /\ WritersFirst(yielded[n].schedule)
        /\ yielded[n].gen # 3 => WritersFirst(yielded[n].scheduled)

\* a produced schedule enters the loop j, whose bound t an instruction writes
C28_Witness ==
    \E n \in DOMAIN yielded :
        /\ DataDepParams("j") # {}
        /\ \E domain_par \in DataDepParams("j") : writer_map(kernel)[domain_par] # {}
        /\ \E m \in DOMAIN yielded[n].schedule : yielded[n].schedule[m] = EnterLoop("j")

\* no loop that is neither ILP nor vectorize is entered inside an ILP or
\* vectorize loop
InnermostIlpVec(schedule) ==
    \A m \in DOMAIN schedule :
        (/\ schedule[m].type = "EnterLoop"
         /\ schedule[m].iname \notin ilp_inames(kernel) \cup vec_inames(kernel)) =>
            active_inames_set(SubSeq(schedule, 1, m - 1))
                \cap (ilp_inames(kernel) \cup vec_inames(kernel)) = {}

\* C29: in every produced schedule no EnterLoop of an iname that is
\* neither ILP- nor vectorize-tagged occurs while an ILP- or
\* vectorize-tagged iname is active.
C29_IlpVecInnermost ==
    \A n \in DOMAIN yielded : InnermostIlpVec(yielded[n].schedule)

\* the inames among the parameters of the domains that hold iname
DomainParamInames(iname) ==
    UNION {kernel.domains[n].param \cap all_inames(kernel) :
              n \in {m \in DOMAIN kernel.domains : iname \in kernel.domains[m].set}}

\* C30 (as amended): an ILP-tagged iname is in loop_nest_map(kernel)[x]
\* exactly when it is a parameter of a domain that holds x; the containment
\* of the instructions of x in those of an ILP-tagged iname never puts it
\* there.
C30_IlpInNestMap ==
    \A x \in all_inames(kernel) :
        loop_nest_map(kernel)[x] \cap ilp_inames(kernel)
            = DomainParamInames(x) \cap ilp_inames(kernel)

\* C30 as stated: no ILP-tagged iname is in loop_nest_map(kernel)[x] for
\* any iname x, whether by instruction usage or by domain parameters
C30_NoIlpInNestMap ==
    \A x \in all_inames(kernel) :
        loop_nest_map(kernel)[x] \cap ilp_inames(kernel) = {}

\* the instructions of j are some but not all of those of the ILP iname i,
\* and a call entered j first
C30_Witness ==
    /\ kernel.iname_to_tag["i"] = "ilp"
    /\ iname_to_insns(kernel)["j"] # iname_to_insns(kernel)["i"]
    /\ iname_to_insns(kernel)["j"] \subseteq iname_to_insns(kernel)["i"]
    /\ DomainParamInames("j") = {}
    /\ \E n \in DOMAIN stack :
          /\ stack[n].schedule # <<>>
          /\ stack[n].schedule[1] = EnterLoop("j")

\* two inames each of which loop_nest_map wants outside the other
CyclicNest(k) ==
    \E inner, outer \in all_inames(k) :
        /\ inner # outer
        /\ outer \in loop_nest_map(k)[inner]
        /\ inner \in loop_nest_map(k)[outer]

\* the search has not taken a step: no call is past its beginning, no call
\* was made from the outermost one, no dead end is logged and the second
\* generator was not started
SearchNotRun ==
    /\ Len(stack) <= 1
    /\ \A n \in DOMAIN stack : stack[n].pc = "begin"
    /\ debug.dead_end_counter = 0
    /\ gen <= 1

\* C31: for a kernel whose loop_nest_map has a cycle the error is reported
\* before the search runs: no call of the search ever gets past its
\* beginning, and no dead end is logged.
C31_CycleReportedAtOnce == CyclicNest(kernel) => SearchNotRun

\* the schedules handed to the reverse pass at level 0: the yielded ones,
\* with and without their barriers
ReversePassInputs ==
    YieldedSchedules
        \cup {BarrierPasses(kind, schedule) : kind \in Kinds, schedule \in YieldedSchedules}

\* C32: insert_barriers with reverse=True at level 0 returns its input
\* schedule unchanged, for every schedule and kind.
C32_NoReverseAtLevelZero ==
    \A schedule \in ReversePassInputs :
        \A kind \in Kinds :
            insert_barriers(kernel, schedule, TRUE, kind, 0) = schedule

\* a yielded schedule to which the reverse pass inside a loop would add a
\* barrier
C32_Witness ==
    \E schedule \in YieldedSchedules :
        \E kind \in Kinds :
            insert_barriers(kernel, schedule, TRUE, kind, 1) # schedule

\* the RunInstruction at pb is in the loop entered at pe, before the first
\* barrier of the kind in its body
InLeadingPart(schedule, pe, pb, kind) ==
    /\ pe < pb
    /\ \E closing \in ClosingOf(schedule, pe) : pb < closing
    /\ \A m \in (pe + 1)..(pb - 1) : ~is_clearing_barrier(schedule[m], kind)

\* every hazard between an instruction in front of a loop at level 0 and an
\* instruction of the leading part of its body has a barrier in front of the
\* EnterLoop
BarrierBeforeLoop(schedule, kind) ==
    \A pe \in DOMAIN schedule :
        (schedule[pe].type = "EnterLoop" /\ OpenAt(schedule, pe) = {}) =>
            \A pa \in RunPositions(schedule) : \A pb \in RunPositions(schedule) :
                (/\ pa < pe
                 /\ InLeadingPart(schedule, pe, pb, kind)
                 /\ schedule[pa].insn_id
                        \in recursive_insn_dep_map(kernel)[schedule[pb].insn_id]
                 /\ Hazard(schedule[pa].insn_id, schedule[pb].insn_id, kind))
                    => \E m \in (pa + 1)..(pe - 1) : is_clearing_barrier(schedule[m], kind)

\* C33: after the forward pass over a yielded schedule, an instruction in
\* front of a loop and an instruction of the loop body located before the
\* body's first barrier of the kind, the second depending on the first with
\* a hazard of the kind, have a barrier in front of the EnterLoop between
\* them, whether or not the loop body holds a barrier of that kind.
C33_BarrierBeforeLoop ==
    \A schedule \in YieldedSchedules :
        \A kind \in Kinds : BarrierBeforeLoop(BarrierPasses(kind, schedule), kind)

\* the state of the while loop before and after each loop it processes
RECURSIVE LoopTurns(_, _, _, _, _)
LoopTurns(schedule, reverse, kind, level, st) ==
    IF st.i > Len(schedule) THEN {}
    ELSE LET step == insert_barriers_step(kernel, schedule, reverse, kind, level, st)
             turn == IF schedule[st.i].type = "EnterLoop"
                     THEN {[before |-> st, after |-> step]}
                     ELSE {}
         IN  IF step.past_first_barrier /\ reverse
             THEN turn
             ELSE turn \cup LoopTurns(schedule, reverse, kind, level, step)

\* the turns of a pass of insert_barriers over a schedule
PassTurns(schedule, reverse, kind, level) ==
    LoopTurns(schedule, reverse, kind, level,
        [i |-> 1, result |-> <<>>,
         candidates |-> IF reverse
                        THEN get_tail_starting_at_last_barrier(schedule, kind)
                        ELSE {},
         past_first_barrier |-> FALSE])

\* the bodies of the loops at level 0 of a schedule
BodiesOf(schedule) ==
    UNION {{SubSeq(schedule, pe + 1, closing - 1) : closing \in ClosingOf(schedule, pe)} :
              pe \in {n \in DOMAIN schedule :
                         schedule[n].type = "EnterLoop" /\ OpenAt(schedule, n) = {}}}

\* the turns of the passes over a yielded schedule: the forward pass at
\* level 0 and, over the body of each of its loops, the forward pass and
\* the reverse pass over what the forward pass returns
TurnsOf(schedule, kind) ==
    PassTurns(schedule, FALSE, kind, 0)
        \cup UNION {PassTurns(body, FALSE, kind, 1)
                        \cup PassTurns(insert_barriers(kernel, body, FALSE, kind, 1),
                                       TRUE, kind, 1) :
                    body \in BodiesOf(schedule)}

\* what the turn appended to result, the barrier it issued and the
\* processed loop body in it
AppendedBy(turn) ==
    SubSeq(turn.after.result, Len(turn.before.result) + 1, Len(turn.after.result))

IssuedBy(turn) == AppendedBy(turn)[1].type = "Barrier"

ProcessedBody(turn) ==
    SubSeq(AppendedBy(turn), IF IssuedBy(turn) THEN 3 ELSE 2, Len(AppendedBy(turn)) - 1)

\* the ids of the instructions of the body behind its last barrier of the
\* kind, all of them if it has none
BehindLastBarrier(body, kind) ==
    {body[n].insn_id : n \in {m \in RunPositions(body) :
        \A q \in m..Len(body) : ~is_clearing_barrier(body[q], kind)}}

HasBarrier(body, kind) == \E n \in DOMAIN body : is_clearing_barrier(body[n], kind)

\* C34 (as amended): after a loop is processed, candidates is the ids of
\* the instructions of the processed body behind its last barrier of the
\* kind if it has one; if it has none, candidates is the ids of all
\* instructions of the body, and with them the candidates from before the
\* loop unless a barrier was issued in front of the loop.
C34_CandidatesAfterLoop ==
    \A schedule \in YieldedSchedules :
        \A kind \in Kinds :
            \A turn \in TurnsOf(schedule, kind) :
                turn.after.candidates =
                    BehindLastBarrier(ProcessedBody(turn), kind)
                        \cup (IF HasBarrier(ProcessedBody(turn), kind) \/ IssuedBy(turn)
                              THEN {}
                              ELSE turn.before.candidates)

\* C34 as stated: candidates is exactly the ids of the instructions of the
\* body, or of those behind its last barrier of the kind
C34_CandidatesExactlyBody ==
    \A schedule \in YieldedSchedules :
        \A kind \in Kinds :
            \A turn \in TurnsOf(schedule, kind) :
                turn.after.candidates = BehindLastBarrier(ProcessedBody(turn), kind)

\* a pass went through a loop whose body holds a barrier, and through one
\* without a barrier that had candidates in front of it
C34_Witness ==
    \E schedule \in YieldedSchedules :
        \E kind \in Kinds :
            /\ \E turn \in TurnsOf(schedule, kind) :
                  HasBarrier(ProcessedBody(turn), kind)
            /\ \E turn \in TurnsOf(schedule, kind) :
                  /\ ~HasBarrier(ProcessedBody(turn), kind)
                  /\ ~IssuedBy(turn)
                  /\ turn.before.candidates # {}

\* no instruction of the pair depends on the other, directly or not
Independent(x, y) ==
    /\ x \notin recursive_insn_dep_map(kernel)[y]
    /\ y \notin recursive_insn_dep_map(kernel)[x]

\* C35: get_barrier_needing_dependency reports a hazard for (source,
\* target, kind) exactly when source, after the roles are swapped for
\* reverse, is in the transitive dependencies of target and a variable of
\* the kind is read after written, written after read or written after
\* written between the two; and the passes put no barrier into a schedule
\* of a kernel in which no instruction depends on another.
C35_HazardIffDependent ==
    /\ \A target \in kernel.insns : \A source \in kernel.insns :
          \A reverse \in BOOLEAN : \A kind \in Kinds :
              LET src == IF reverse THEN target ELSE source
                  tgt == IF reverse THEN source ELSE target
              IN  get_barrier_needing_dependency(kernel, target, source, reverse, kind) # {}
                      <=> /\ src \in recursive_insn_dep_map(kernel)[tgt]
                          /\ Hazard(src, tgt, kind)
    /\ (\A x \in kernel.insns : \A y \in kernel.insns : Independent(x, y)) =>
          \A schedule \in YieldedSchedules :
              \A kind \in Kinds : BarriersOf(BarrierPasses(kind, schedule)) = {}

\* a schedule was yielded for two independent instructions that write the
\* same local variable
C35_Witness ==
    /\ yielded # <<>>
    /\ \A x \in kernel.insns : \A y \in kernel.insns : Independent(x, y)
    /\ \E x \in kernel.insns : \E y \in kernel.insns :
          /\ x # y
          /\ kernel.writes[x] \cap kernel.writes[y] \cap local_var_names(kernel) # {}

\* C36: in every scheduled kernel generate_loop_schedules hands out, every
\* pair of instructions A before B, with B depending on A and a hazard on a
\* global variable, has a global Barrier between A and B.
C36_GlobalBarriers ==
    \A scheduled \in FinalizedSchedules : Guarded(scheduled, "global")

\* every hazardous dependent pair inside a loop of the schedule has a
\* barrier of the kind on the way from the second instruction to the end of
\* the loop body or from its start to the first instruction
LoopCarriedGuarded(schedule, kind) ==
    \A pe \in DOMAIN schedule : \A closing \in ClosingOf(schedule, pe) :
        schedule[pe].type = "EnterLoop" =>
            \A pa \in RunPositions(schedule) : \A pb \in RunPositions(schedule) :
                (/\ pe < pa /\ pa < pb /\ pb < closing
                 /\ schedule[pa].insn_id
                        \in recursive_insn_dep_map(kernel)[schedule[pb].insn_id]
                 /\ Hazard(schedule[pa].insn_id, schedule[pb].insn_id, kind))
                    => \E m \in ((pb + 1)..(closing - 1)) \cup ((pe + 1)..(pa - 1)) :
                           is_clearing_barrier(schedule[m], kind)

\* the schedule from its first barrier of the kind on, nothing if it has none
FromFirstBarrier(schedule, kind) ==
    LET barrier_indices == {n \in DOMAIN schedule : is_clearing_barrier(schedule[n], kind)}
    IN  IF barrier_indices = {} THEN <<>>
        ELSE SubSeq(schedule,
                    CHOOSE n \in barrier_indices : \A m \in barrier_indices : n <= m,
                    Len(schedule))

WithoutBarriers(schedule) == SelectSeq(schedule, LAMBDA item : item.type # "Barrier")

\* the reverse pass over a loop body only adds barriers, in front of the
\* first barrier the body has
ReverseOnlyInFront(body, kind) ==
    LET forward == insert_barriers(kernel, body, FALSE, kind, 1)
        reversed == insert_barriers(kernel, forward, TRUE, kind, 1)
        rest == FromFirstBarrier(forward, kind)
    IN  /\ WithoutBarriers(reversed) = WithoutBarriers(forward)
        /\ Len(reversed) >= Len(forward)
        /\ SubSeq(reversed, Len(reversed) - Len(rest) + 1, Len(reversed)) = rest

\* C37: after the passes, every pair of instructions A before B of a loop
\* body, with B depending on A and a hazard of the kind, has a barrier of
\* that kind or a more global one between B and the end of the body or
\* between the start of the body and A; and the reverse pass adds barriers
\* only in front of the body's first barrier and leaves the rest unchanged.
C37_LoopCarried ==
    \A schedule \in YieldedSchedules :
        \A kind \in Kinds :
            /\ LoopCarriedGuarded(BarrierPasses(kind, schedule), kind)
            /\ \A body \in BodiesOf(schedule) : ReverseOnlyInFront(body, kind)

\* ------------------------------------------------------------------------
\* C38
\* ------------------------------------------------------------------------

\* s is t with some items left out
RECURSIVE IsSubSeq(_, _)
IsSubSeq(s, t) ==
    IF s = <<>> THEN TRUE
    ELSE IF t = <<>> THEN FALSE
    ELSE IF Head(s) = Head(t) THEN IsSubSeq(Tail(s), Tail(t))
    ELSE IsSubSeq(s, Tail(t))

\* the pass changes its input by adding Barrier items only
OnlyAddsBarriers(schedule, reverse, kind, level) ==
    LET out == insert_barriers(kernel, schedule, reverse, kind, level)
    IN  /\ WithoutBarriers(out) = WithoutBarriers(schedule)
        /\ IsSubSeq(schedule, out)

\* the well-nested schedules at hand: the yielded ones, with the barriers of
\* a pass and without, and the bodies of their loops
WellNestedInputs ==
    ReversePassInputs \cup UNION {BodiesOf(schedule) : schedule \in ReversePassInputs}

\* C38: insert_barriers only adds Barrier items: for every well-nested
\* schedule, kind, reverse flag and level the output without its Barrier
\* items equals the input without its Barrier items, and every Barrier of
\* the input is still in the output.
C38_OnlyAddsBarriers ==
    \A schedule \in WellNestedInputs :
        \A kind \in Kinds, reverse \in BOOLEAN, level \in 0..1 :
            OnlyAddsBarriers(schedule, reverse, kind, level)

\* a schedule that holds a Barrier already and to which a pass of the other
\* kind, or the reverse pass, adds another one
C38_Witness ==
    \E schedule \in WellNestedInputs :
        \E kind \in Kinds, reverse \in BOOLEAN, level \in 0..1 :
            /\ BarriersOf(schedule) # {}
            /\ Len(insert_barriers(kernel, schedule, reverse, kind, level)) > Len(schedule)
            /\ OnlyAddsBarriers(schedule, reverse, kind, level)

\* ------------------------------------------------------------------------
\* C39
\* ------------------------------------------------------------------------

\* the forward and then the reverse pass over a loop body, as the pass over
\* the enclosing schedule runs them
BodyPasses(kind, body, level) ==
    insert_barriers(kernel, insert_barriers(kernel, body, FALSE, kind, level),
                    TRUE, kind, level)

\* the bodies of the loops of a schedule, by the level of the body
BodiesAtLevel(schedule, level) ==
    IF level = 1 THEN BodiesOf(schedule)
    ELSE UNION {BodiesOf(body) : body \in BodiesOf(schedule)}

\* C39: the barrier passes are idempotent: the forward pass over a schedule
\* that is its own output, and the forward and reverse passes over a loop
\* body that is their output, add no Barrier.
C39_PassesIdempotent ==
    \A schedule \in YieldedSchedules :
        \A kind \in Kinds :
            /\ BarrierPasses(kind, BarrierPasses(kind, schedule))
                   = BarrierPasses(kind, schedule)
            /\ \A level \in 1..2 :
                   \A body \in BodiesAtLevel(schedule, level) :
                       BodyPasses(kind, BodyPasses(kind, body, level), level)
                           = BodyPasses(kind, body, level)

\* a yielded schedule with a loop whose body gets a barrier from the
\* forward and another from the reverse pass, to which the forward pass
\* adds a barrier outside that body too, and which the passes leave alone
\* from then on
C39_Witness ==
    \E schedule \in YieldedSchedules :
        \E kind \in Kinds :
            /\ BarrierPasses(kind, BarrierPasses(kind, schedule))
                   = BarrierPasses(kind, schedule)
            /\ \E body \in BodiesOf(schedule) :
                   LET forward == insert_barriers(kernel, body, FALSE, kind, 1)
                   IN  /\ Len(forward) > Len(body)
                       /\ Len(BodyPasses(kind, body, 1)) > Len(forward)
                       /\ BodyPasses(kind, BodyPasses(kind, body, 1), 1)
                              = BodyPasses(kind, body, 1)
                       /\ Len(BarrierPasses(kind, schedule))
                              > Len(BodyPasses(kind, body, 1)) + Len(schedule) - Len(body)

\* ------------------------------------------------------------------------
\* C40
\* ------------------------------------------------------------------------

\* the schedules the search has built: those of the calls in progress and
\* the yielded ones
BuiltSchedules == {stack[n].schedule : n \in DOMAIN stack} \cup YieldedSchedules

\* the schedule has left the loop of the iname and gone on from there
LeftAndWentOn(schedule, iname) ==
    \E n \in DOMAIN schedule : schedule[n] = LeaveLoop(iname) /\ n < Len(schedule)

\* C40: in every schedule built by the search each iname that is not
\* ILP-tagged occurs in at most one EnterLoop item; only ILP inames are
\* entered more than once.
C40_EnteredOnce ==
    \A schedule \in BuiltSchedules :
        \A iname \in Inames \ ilp_inames(kernel) :
            Cardinality(EntriesOf(schedule, iname)) <= 1

\* a schedule that went on after leaving a loop that is not breakable,
\* with instructions still to run, and a schedule that enters an ILP loop
\* again
C40_Witness ==
    /\ \E schedule \in BuiltSchedules :
           \E iname \in Inames \ ilp_inames(kernel) :
               /\ LeftAndWentOn(schedule, iname)
               /\ ~is_complete(kernel, schedule)
    /\ \E schedule \in BuiltSchedules : Reentered(schedule) # {}

====
